---------------------------- MODULE Spec2Model ----------------------------
(***************************************************************************)
(* The API-key pool of gembot: the api_keys table (KeyStore), the Redis    *)
(* list available_api_keys (KeyCache) and the operations the processes of  *)
(* the repository run against them:                                        *)
(*   launcher/scripts/select_key.py      the CLI selector (FOR UPDATE      *)
(*                                       SKIP LOCKED, --mark-use,          *)
(*                                       --reserve, --allow-exhausted)     *)
(*   launcher/scripts/track_api_usage.py track_usage                       *)
(*   utils/db_utils.py                   get_available_key, release_key,   *)
(*                                       update_key_and_log_usage,         *)
(*                                       check_and_notify_quota_usage      *)
(*   gemini_agent.py                     the rate-limit disable of main    *)
(* Every SQL statement and every Redis command is one atomic step; a       *)
(* transaction's writes become visible at its commit (READ COMMITTED) and  *)
(* NOW() is the start time of the transaction that evaluates it.           *)
(***************************************************************************)
EXTENDS Integers, Sequences, FiniteSets

(* ------------------------------ bounds -------------------------------- *)
NumProcs == 2
NumKeys == 2
MaxTime == 2
MaxOps == 3

(* ------------------------- program constants -------------------------- *)
NULL == -1
Empty == 0
Unlocked == 0
QuotaLimit == 60
WarnThreshold == 55
DAILY_REQUEST_LIMIT == 960
RateLimitCooldown == 300
ExitOk == 0
ExitNoKey == 2
ExitSchema == 3
ExitDbError == 4
HttpError == 500
HttpBadRequest == 400
MIN_REQUEST_INTERVAL_SECONDS == 30
max_retries == 5
InitialRetryDelay == 5
KeyExhaustedSleep == 300

Procs == 1..NumProcs
ReserveSeconds == {0, 1}
TokenCounts == {1}

VARIABLES
  now,        \* the wall clock, in seconds
  api_keys,   \* the committed rows of table api_keys, by key
  usage_log,  \* the number of committed usage_log rows, by key
  lockedBy,   \* the transaction holding the row lock of each key, or Unlocked
  cache,      \* the Redis list available_api_keys
  txn,        \* the start time of the open transaction on each caller's own
              \* connection (agent, wrapper, proxy), or NULL
  pc,         \* each process's position
  op,         \* the operation each process runs, or ran last
  arg,        \* the arguments of that operation
  res,        \* the key an Acquire returned, or Empty
  keys,       \* get_available_key: the rows fetched by the scan
  pend,       \* the uncommitted row written by the process's transaction
  calls,      \* the number of operations each process has started
  notified,   \* the calls of send_slack_notification about each key's quota,
              \* by level
  round,      \* the processes whose Acquire overlapped the process's Acquire
  raised,     \* the processes that ended in their exception handler
  code,       \* the status the process's last operation ended with: the exit
              \* status of select_key.py, the HTTP status of the proxy's
              \* error response, or NULL
  webhook,    \* what happens to a message sent to the Slack webhook
  retry,      \* the agent's retry_count and retry_delay, and the length of
              \* its last retry sleep
  key_name    \* column key_name of each row of api_keys; the row's id is
              \* its index in api_keys

vars == <<now, api_keys, usage_log, lockedBy, cache, txn, pc, op, arg, res,
          keys, pend, calls, round, notified, raised, code, webhook, retry,
          key_name>>

(* the provisioned keys: the rows of api_keys, never created or deleted here *)
Keys == DOMAIN api_keys

(* ------------------------------- rows --------------------------------- *)
Row(c, tk, lu, du, qe) ==
  [daily_request_count |-> c, daily_token_total |-> tk, last_used |-> lu,
   disabled_until |-> du, quota_exhausted |-> qe]

FreshRow == Row(0, 0, NULL, NULL, FALSE)

NoNotice == [warning |-> 0, error |-> 0]

(* gemini_agent.py lines 305 and 317: retry_delay and retry_count at start; *)
(* slept is the argument of the last time.sleep(retry_delay), 0 for none   *)
NoRetry == [count |-> 0, delay |-> InitialRetryDelay, slept |-> 0]

NoArg == [key |-> Empty, reserve |-> 0, mark |-> FALSE, redis |-> FALSE,
          rd |-> 0, t |-> NULL, fault |-> "none"]

RECURSIVE SumCalls(_)
SumCalls(S) ==
  IF S = {} THEN 0
  ELSE LET p == CHOOSE x \in S : TRUE IN calls[p] + SumCalls(S \ {p})

MayStart(p) == pc[p] = "idle" /\ ~raised[p] /\ SumCalls(Procs) < MaxOps

(* NOW(): the start of the current transaction *)
Now(p) == IF txn[p] = NULL THEN now ELSE txn[p]

(* --------------------------- availability ----------------------------- *)
(* a cooldown that never runs out *)
NotDisabledNullOnly(r, t) == r.disabled_until = NULL

(* select_key.py line 107, db_utils.py line 156 *)
NotDisabled(r, t) == r.disabled_until = NULL \/ r.disabled_until < t

CliWhere(r, allow, t) ==
  /\ (allow \/ ~r.quota_exhausted)
  /\ NotDisabled(r, t)

(* a scan that does not look at disabled_until *)
GakWhereNoCooldown(r, t) ==
  /\ ~r.quota_exhausted
  /\ r.daily_request_count < QuotaLimit

GakWhere(r, t) ==
  /\ ~r.quota_exhausted
  /\ NotDisabled(r, t)
  /\ r.daily_request_count < QuotaLimit

(* ------------------------------ ordering ------------------------------ *)
LastUsedBefore(a, b) ==
  \/ a = NULL /\ b # NULL
  \/ a # NULL /\ b # NULL /\ a < b

(* the ORDER BY clause with its first two columns left out *)
CliBeforeLastUsedOnly(r1, r2) == LastUsedBefore(r1.last_used, r2.last_used)

(* select_key.py line 112: the ORDER BY clause *)
CliBefore(r1, r2) ==
  \/ r1.daily_request_count < r2.daily_request_count
  \/ /\ r1.daily_request_count = r2.daily_request_count
     /\ r1.daily_token_total < r2.daily_token_total
  \/ /\ r1.daily_request_count = r2.daily_request_count
     /\ r1.daily_token_total = r2.daily_token_total
     /\ LastUsedBefore(r1.last_used, r2.last_used)

GakBefore(r1, r2) == LastUsedBefore(r1.last_used, r2.last_used)

(* the rows of S no other row of S sorts before *)
CliFirst(S) ==
  {k \in S : \A j \in S : ~CliBefore(api_keys[j], api_keys[k])}

Perms(S) ==
  {s \in [1..Cardinality(S) -> S] :
     \A i, j \in 1..Cardinality(S) : i # j => s[i] # s[j]}

(* the statement without SKIP LOCKED: the first row, locked or not *)
SelectForUpdate(p, allow, t) ==
  CliFirst({k \in Keys : CliWhere(api_keys[k], allow, t)})

(* SELECT ... FOR UPDATE SKIP LOCKED LIMIT 1: the rows the statement may    *)
(* return, rows locked by another transaction being passed over             *)
SelectSkipLocked(p, allow, t) ==
  CliFirst({k \in Keys : /\ CliWhere(api_keys[k], allow, t)
                         /\ lockedBy[k] \in {Unlocked, p}})

(* SELECT ... ORDER BY last_used ASC NULLS FIRST: the possible result lists *)
GakQuery(t) ==
  LET S == {k \in Keys : GakWhere(api_keys[k], t)}
  IN {s \in Perms(S) :
        \A i, j \in 1..Cardinality(S) :
          i < j => ~GakBefore(api_keys[s[j]], api_keys[s[i]])}

(* ----------------------- claim rounds (history) ----------------------- *)
InClaim(q) ==
  pc[q] \in {"cli_update", "cli_close",
             "gak_scan", "gak_delete", "gak_push", "gak_lpop2"}

BeginRound(p) ==
  LET F == {q \in Procs \ {p} : InClaim(q)}
  IN round' = [q \in Procs |->
                 IF q = p THEN F
                 ELSE IF q \in F THEN round[q] \cup {p}
                 ELSE round[q] \ {p}]

(* an operation starts; c is the status it ends with at once, if it does *)
BeginWith(p, o, a, c) ==
  /\ MayStart(p)
  /\ calls' = [calls EXCEPT ![p] = @ + 1]
  /\ op' = [op EXCEPT ![p] = o]
  /\ arg' = [arg EXCEPT ![p] = a]
  /\ code' = [code EXCEPT ![p] = c]

Begin(p, o, a) == BeginWith(p, o, a, NULL)

(* ------------------------------- clock -------------------------------- *)
(* a process in time.sleep, to be woken at arg[p].t *)
Sleeping(p) == pc[p] \in {"thr_sleep", "retry_sleep"}

(* the times at which a sleep is still to end *)
WakeTimes == {arg[p].t : p \in {q \in Procs : Sleeping(q) /\ now < arg[q].t}}

(* the clock is followed second by second up to MaxTime, and beyond it     *)
(* from one wake-up to the next                                            *)
Tick ==
  /\ now < MaxTime \/ WakeTimes # {}
  /\ now' = IF now < MaxTime THEN now + 1
            ELSE CHOOSE t \in WakeTimes : \A u \in WakeTimes : t <= u
  /\ UNCHANGED <<api_keys, usage_log, lockedBy, cache, txn, pc, op, arg, res,
                 keys, pend, calls, round, notified, raised, code, webhook, key_name,
                 retry>>

(* ---------------- select_key.py: the CLI selector --------------------- *)
(* lines 101-139 and, when no row is returned, main's conn.close() and      *)
(* exit 2 (lines 192-198): the transaction starts with the process          *)
CliSelect(p, allow, reserve, mark) ==
  /\ LET cand == SelectSkipLocked(p, allow, now)
     IN IF cand = {}
        THEN /\ BeginWith(p, "cli", NoArg, ExitNoKey)
             /\ UNCHANGED <<lockedBy, pc>>
        ELSE \E k \in cand :
             /\ lockedBy[k] = Unlocked
             /\ Begin(p, "cli", [NoArg EXCEPT !.key = k, !.reserve = reserve,
                                   !.mark = mark, !.t = now])
             /\ lockedBy' = [lockedBy EXCEPT ![k] = p]
             /\ pc' = [pc EXCEPT ![p] =
                        IF mark \/ reserve > 0 THEN "cli_update"
                        ELSE "cli_close"]
  /\ res' = [res EXCEPT ![p] = Empty]
  /\ BeginRound(p)
  /\ UNCHANGED <<now, api_keys, usage_log, cache, txn, keys, pend, notified,
                 raised, webhook, key_name, retry>>

(* lines 146-151: the SET clauses of the UPDATE *)
CliUpdatedRow(r, a) ==
  [r EXCEPT
     !.daily_request_count = IF a.mark THEN @ + 1 ELSE @,
     !.last_used = IF a.mark THEN a.t ELSE @,
     !.disabled_until = IF a.reserve > 0 THEN a.t + a.reserve ELSE @]

(* lines 153-158: UPDATE and commit, then main's conn.close() and exit 0 *)
CliUpdate(p) ==
  /\ pc[p] = "cli_update"
  /\ LET k == arg[p].key
     IN /\ api_keys' = [api_keys EXCEPT ![k] = CliUpdatedRow(@, arg[p])]
        /\ lockedBy' = [lockedBy EXCEPT ![k] = Unlocked]
        /\ res' = [res EXCEPT ![p] = k]
  /\ arg' = [arg EXCEPT ![p] = NoArg]
  /\ pc' = [pc EXCEPT ![p] = "idle"]
  /\ code' = [code EXCEPT ![p] = ExitOk]
  /\ UNCHANGED <<now, usage_log, cache, txn, op, keys, pend, calls, round,
                 notified, raised, webhook, key_name, retry>>

(* a close that ended no transaction: the row locks stay *)
KeptLocks(p) == lockedBy

(* lines 192-193: conn.close() ends the connection's transaction, and with *)
(* it the row locks the transaction holds                                  *)
ClosedLocks(p) ==
  [k \in Keys |-> IF lockedBy[k] = p THEN Unlocked ELSE lockedBy[k]]

(* without flags nothing is committed: the row lock is held until main's    *)
(* conn.close() (lines 192-193) ends the transaction; exit 0 (lines 200-208)*)
CliClose(p) ==
  /\ pc[p] = "cli_close"
  /\ lockedBy' = ClosedLocks(p)
  /\ res' = [res EXCEPT ![p] = arg[p].key]
  /\ arg' = [arg EXCEPT ![p] = NoArg]
  /\ pc' = [pc EXCEPT ![p] = "idle"]
  /\ code' = [code EXCEPT ![p] = ExitOk]
  /\ UNCHANGED <<now, api_keys, usage_log, cache, txn, op, keys, pend, calls,
                 round, notified, raised, webhook, key_name, retry>>

(* what can be wrong with the database when select_key.py runs: the        *)
(* api_keys table is absent, it has none of the secret columns, it lacks a  *)
(* column the SELECT names (key_name, quota_exhausted, disabled_until,      *)
(* daily_request_count, daily_token_total, last_used); the server cannot be *)
(* reached, or a statement fails                                           *)
SchemaFaults == {"no_table", "no_secret_column", "no_query_column"}
StorageFaults == {"connect", "query"}

(* the exit status of a run under a fault: _connect exits 4 (lines 61-63); *)
(* without the table information_schema.columns has no row for it, so that *)
(* as without a secret column select_key exits 3 (lines 115-118) and the   *)
(* handler of line 186 is never reached; a missing column of the SELECT    *)
(* raises UndefinedColumn at line 135, which like any other error is       *)
(* caught at line 189                                                      *)
FaultExit(f) ==
  CASE f = "connect" -> ExitDbError
    [] f = "no_table" -> ExitSchema
    [] f = "no_secret_column" -> ExitSchema
    [] f = "no_query_column" -> ExitDbError
    [] f = "query" -> ExitDbError

(* a run that ends before a row is selected *)
CliFault(p, f) ==
  /\ BeginWith(p, "cli", [NoArg EXCEPT !.fault = f], FaultExit(f))
  /\ res' = [res EXCEPT ![p] = Empty]
  /\ BeginRound(p)
  /\ UNCHANGED <<now, api_keys, usage_log, lockedBy, cache, txn, pc, keys,
                 pend, notified, raised, webhook, key_name, retry>>

(* the UPDATE of line 155 fails: nothing is committed, main's handler of   *)
(* line 189 exits 4 and conn.close() ends the transaction                  *)
CliUpdateRaise(p) ==
  /\ pc[p] = "cli_update"
  /\ lockedBy' = ClosedLocks(p)
  /\ arg' = [arg EXCEPT ![p] = [NoArg EXCEPT !.fault = "query"]]
  /\ pc' = [pc EXCEPT ![p] = "idle"]
  /\ code' = [code EXCEPT ![p] = FaultExit("query")]
  /\ UNCHANGED <<now, api_keys, usage_log, cache, txn, op, res, keys, pend,
                 calls, round, notified, raised, webhook, key_name, retry>>

(* the process is killed between its SELECT and its close: the server ends *)
(* the session, and with it the transaction and its row locks; nothing is  *)
(* printed                                                                 *)
CliCrash(p) ==
  /\ pc[p] \in {"cli_update", "cli_close"}
  /\ lockedBy' = ClosedLocks(p)
  /\ arg' = [arg EXCEPT ![p] = NoArg]
  /\ pc' = [pc EXCEPT ![p] = "idle"]
  /\ raised' = [raised EXCEPT ![p] = TRUE]
  /\ UNCHANGED <<now, api_keys, usage_log, cache, txn, op, res, keys, pend,
                 calls, round, notified, code, webhook, key_name, retry>>

(* ----------------- db_utils.send_slack_notification ------------------ *)
(* the states of the Slack webhook: it delivers, SLACK_WEBHOOK_URL is not  *)
(* configured, it answers with a status other than 200, requests.post      *)
(* raises                                                                  *)
Webhooks == {"ok", "unconfigured", "non200", "exception"}

(* send_slack_notification without its try/except *)
DeliveryUncaught(hook) ==
  CASE hook = "ok" -> "posted"
    [] hook = "unconfigured" -> "skipped"
    [] hook = "non200" -> "logged"
    [] hook = "exception" -> "raised"

(* lines 253-286: what a call of send_slack_notification comes to: an      *)
(* unconfigured webhook returns at line 258, a status other than 200 is    *)
(* logged at line 284 and an exception is caught and logged at 285-286     *)
Delivery(hook) ==
  CASE hook = "ok" -> "posted"
    [] hook = "unconfigured" -> "skipped"
    [] hook = "non200" -> "logged"
    [] hook = "exception" -> "logged"

(* ------------- db_utils.get_available_key (agent, proxy) -------------- *)
(* lines 144-149: the cache pop; a miss falls through to the scan *)
GakLpop(p, redis) ==
  /\ Begin(p, "gak", IF redis /\ cache = <<>>
                      THEN [NoArg EXCEPT !.redis = TRUE] ELSE NoArg)
  /\ IF redis /\ cache # <<>>
     THEN /\ res' = [res EXCEPT ![p] = Head(cache)]
          /\ cache' = Tail(cache)
          /\ UNCHANGED pc
     ELSE /\ res' = [res EXCEPT ![p] = Empty]
          /\ pc' = [pc EXCEPT ![p] = "gak_scan"]
          /\ UNCHANGED cache
  /\ BeginRound(p)
  /\ UNCHANGED <<now, api_keys, usage_log, lockedBy, txn, keys, pend,
                 notified, raised, webhook, key_name, retry>>

(* gemini_openai_proxy.py 26-42: get_gemini_api_key of the proxy makes the  *)
(* same call on a connection of its own                                    *)
ProxyLpop(p, redis) ==
  /\ Begin(p, "proxy", IF redis /\ cache = <<>>
                        THEN [NoArg EXCEPT !.redis = TRUE] ELSE NoArg)
  /\ IF redis /\ cache # <<>>
     THEN /\ res' = [res EXCEPT ![p] = Head(cache)]
          /\ cache' = Tail(cache)
          /\ UNCHANGED pc
     ELSE /\ res' = [res EXCEPT ![p] = Empty]
          /\ pc' = [pc EXCEPT ![p] = "gak_scan"]
          /\ UNCHANGED cache
  /\ txn' = [txn EXCEPT ![p] = NULL]
  /\ BeginRound(p)
  /\ UNCHANGED <<now, api_keys, usage_log, lockedBy, keys, pend, notified,
                 raised, webhook, key_name, retry>>

(* gemini_openai_proxy.py 31-33 and 79-81: get_db_connection returned None; *)
(* the proxy raises Exception, which chat_completions answers with 500      *)
ProxyFault(p) ==
  /\ BeginWith(p, "proxy", [NoArg EXCEPT !.fault = "connect"], HttpError)
  /\ res' = [res EXCEPT ![p] = Empty]
  /\ raised' = [raised EXCEPT ![p] = TRUE]
  /\ BeginRound(p)
  /\ UNCHANGED <<now, api_keys, usage_log, lockedBy, cache, txn, pc, keys,
                 pend, notified, webhook, key_name, retry>>

(* what the caller makes of the call's end: the proxy closes its connection *)
(* (gemini_openai_proxy.py 40-42); on None it raises Exception (37-38),     *)
(* while the agent sends a warning, sleeps and calls again (gemini_agent.py *)
(* 320-325); an exception in the proxy is answered with 500 by              *)
(* chat_completions (79-81)                                                 *)
TxnAtEnd(p, t) == IF op[p] = "proxy" THEN NULL ELSE t
RaisedOnNone(p) == op[p] = "proxy" \/ Delivery(webhook) = "raised"
CodeOnRaise(p) == IF op[p] = "proxy" THEN HttpError ELSE code[p]

(* lines 152-163 and 178: the scan, in the caller's transaction *)
GakScan(p) ==
  /\ pc[p] = "gak_scan"
  /\ \E s \in GakQuery(Now(p)) :
       IF s = <<>>
       THEN /\ pc' = [pc EXCEPT ![p] = "idle"]
            /\ arg' = [arg EXCEPT ![p] = NoArg]
            /\ txn' = [txn EXCEPT ![p] = TxnAtEnd(p, Now(p))]
            /\ raised' = [raised EXCEPT ![p] = RaisedOnNone(p)]
            /\ code' = [code EXCEPT ![p] = CodeOnRaise(p)]
            /\ UNCHANGED <<res, keys>>
       ELSE IF arg[p].redis
       THEN /\ pc' = [pc EXCEPT ![p] = "gak_delete"]
            /\ keys' = [keys EXCEPT ![p] = s]
            /\ txn' = [txn EXCEPT ![p] = Now(p)]
            /\ UNCHANGED <<res, arg, raised, code>>
       ELSE /\ pc' = [pc EXCEPT ![p] = "idle"]
            /\ res' = [res EXCEPT ![p] = s[1]]
            /\ arg' = [arg EXCEPT ![p] = NoArg]
            /\ txn' = [txn EXCEPT ![p] = TxnAtEnd(p, Now(p))]
            /\ UNCHANGED <<keys, raised, code>>
  /\ UNCHANGED <<now, api_keys, usage_log, lockedBy, cache, op, pend, calls,
                 round, notified, webhook, key_name, retry>>

(* line 152 fails (the connection is lost): the exception ends the agent in *)
(* its handler (gemini_agent.py 411-419) and the proxy's request in the     *)
(* handler of chat_completions (gemini_openai_proxy.py 79-81)               *)
GakScanRaise(p) ==
  /\ pc[p] = "gak_scan"
  /\ arg' = [arg EXCEPT ![p] = [NoArg EXCEPT !.fault = "query"]]
  /\ txn' = [txn EXCEPT ![p] = NULL]
  /\ pc' = [pc EXCEPT ![p] = "idle"]
  /\ raised' = [raised EXCEPT ![p] = TRUE]
  /\ code' = [code EXCEPT ![p] = CodeOnRaise(p)]
  /\ UNCHANGED <<now, api_keys, usage_log, lockedBy, cache, op, res, keys,
                 pend, calls, round, notified, webhook, key_name, retry>>

(* line 166 *)
GakDelete(p) ==
  /\ pc[p] = "gak_delete"
  /\ cache' = <<>>
  /\ pc' = [pc EXCEPT ![p] = "gak_push"]
  /\ UNCHANGED <<now, api_keys, usage_log, lockedBy, txn, op, arg, res, keys,
                 pend, calls, round, notified, raised, code, webhook, key_name, retry>>

(* lines 167-171: the pipeline of RPUSHes runs as one MULTI/EXEC *)
GakPush(p) ==
  /\ pc[p] = "gak_push"
  /\ cache' = cache \o keys[p]
  /\ pc' = [pc EXCEPT ![p] = "gak_lpop2"]
  /\ UNCHANGED <<now, api_keys, usage_log, lockedBy, txn, op, arg, res, keys,
                 pend, calls, round, notified, raised, code, webhook, key_name, retry>>

(* lines 173-178 *)
GakLpop2(p) ==
  /\ pc[p] = "gak_lpop2"
  /\ IF cache # <<>>
     THEN /\ res' = [res EXCEPT ![p] = Head(cache)]
          /\ cache' = Tail(cache)
     ELSE /\ res' = [res EXCEPT ![p] = keys[p][1]]
          /\ UNCHANGED cache
  /\ keys' = [keys EXCEPT ![p] = <<>>]
  /\ arg' = [arg EXCEPT ![p] = NoArg]
  /\ pc' = [pc EXCEPT ![p] = "idle"]
  /\ txn' = [txn EXCEPT ![p] = TxnAtEnd(p, @)]
  /\ UNCHANGED <<now, api_keys, usage_log, lockedBy, op, pend, calls,
                 round, notified, raised, code, webhook, key_name, retry>>

(* the caller's connection ends its transaction: conn.close() of the proxy  *)
(* (gemini_openai_proxy.py 40-42) and of the agent (gemini_agent.py 417-419)*)
ConnClose(p) ==
  /\ pc[p] = "idle"
  /\ txn[p] # NULL
  /\ txn' = [txn EXCEPT ![p] = NULL]
  /\ UNCHANGED <<now, api_keys, usage_log, lockedBy, cache, pc, op, arg, res,
                 keys, pend, calls, round, notified, raised, code, webhook, key_name,
                 retry>>

(* --------------------- db_utils.throttle_if_needed --------------------- *)
(* a throttle that sleeps the whole interval whenever it sleeps *)
ThrottleSleepWhole(last_used, t) ==
  IF last_used # NULL /\ t - last_used < MIN_REQUEST_INTERVAL_SECONDS
  THEN MIN_REQUEST_INTERVAL_SECONDS
  ELSE 0

(* lines 209-217: sleep_time for the last_used read, at time t; 0 when     *)
(* there is no sleep                                                       *)
ThrottleSleep(last_used, t) ==
  IF last_used # NULL /\ t - last_used < MIN_REQUEST_INTERVAL_SECONDS
  THEN MIN_REQUEST_INTERVAL_SECONDS - (t - last_used)
  ELSE 0

(* lines 206-217: the SELECT, in the caller's transaction, and the start   *)
(* of the sleep, if any                                                    *)
ThrottleRead(p, k) ==
  LET last_used == api_keys[k].last_used
      sleep_time == ThrottleSleep(last_used, now)
  IN /\ Begin(p, "throttle",
              IF sleep_time > 0
              THEN [NoArg EXCEPT !.key = k, !.rd = last_used,
                                !.t = now + sleep_time]
              ELSE NoArg)
     /\ txn' = [txn EXCEPT ![p] = Now(p)]
     /\ pc' = [pc EXCEPT ![p] = IF sleep_time > 0 THEN "thr_sleep" ELSE "idle"]
     /\ UNCHANGED <<now, api_keys, usage_log, lockedBy, cache, res, keys,
                    pend, round, notified, raised, webhook, key_name, retry>>

(* line 217: time.sleep returns *)
ThrottleWake(p) ==
  /\ pc[p] = "thr_sleep"
  /\ now >= arg[p].t
  /\ arg' = [arg EXCEPT ![p] = NoArg]
  /\ pc' = [pc EXCEPT ![p] = "idle"]
  /\ UNCHANGED <<now, api_keys, usage_log, lockedBy, cache, txn, op, res,
                 keys, pend, calls, round, notified, raised, code, webhook, key_name,
                 retry>>

(* ---- db_utils.update_key_and_log_usage, check_and_notify_quota_usage --- *)
(* lines 222-227: the SET clauses of the UPDATE *)
RecordedRow(r, tok, t) ==
  [r EXCEPT
     !.last_used = t,
     !.daily_request_count = @ + 1,
     !.daily_token_total = @ + tok]

(* lines 221-232: UPDATE (takes the row lock) and INSERT, uncommitted; in   *)
(* the agent the call follows a generation that succeeded, which resets    *)
(* retry_count and retry_delay (gemini_agent.py 361-363)                   *)
RecUpdate(p, k, tok) ==
  /\ lockedBy[k] = Unlocked
  /\ Begin(p, "record", [NoArg EXCEPT !.key = k])
  /\ lockedBy' = [lockedBy EXCEPT ![k] = p]
  /\ pend' = [pend EXCEPT ![p] = RecordedRow(api_keys[k], tok, Now(p))]
  /\ txn' = [txn EXCEPT ![p] = Now(p)]
  /\ pc' = [pc EXCEPT ![p] = "rec_check"]
  /\ retry' = [retry EXCEPT ![p] = NoRetry]
  /\ UNCHANGED <<now, api_keys, usage_log, cache, res, keys, round, notified,
                 raised, webhook, key_name>>

(* lines 240-250: the cache is cleared in the elif branch, when the count   *)
(* read back has reached 60 and get_redis_connection() succeeds             *)
QuotaCheckClears(count, redis) ==
  count # WarnThreshold /\ count >= QuotaLimit /\ redis

(* the threshold test written as "at or above" instead of "equal to" *)
QuotaNoticeAtOrAbove(count) ==
  IF count >= QuotaLimit THEN "error"
  ELSE IF count >= WarnThreshold THEN "warning"
  ELSE "none"

(* lines 240-247: the level of the notification sent for the count read    *)
(* back, "none" when neither branch is taken                               *)
QuotaNotice(count) ==
  IF count = WarnThreshold THEN "warning"
  ELSE IF count >= QuotaLimit THEN "error"
  ELSE "none"

(* send_slack_notification (lines 253-286) has been called once more at    *)
(* the level                                                               *)
Notify(n, level) == IF level = "none" THEN n ELSE [n EXCEPT ![level] = @ + 1]

(* lines 237-251, inside the caller's transaction; an exception leaving    *)
(* send_slack_notification would end the agent in its handler              *)
(* (gemini_agent.py 411-419)                                               *)
RecCheck(p, redis) ==
  /\ pc[p] = "rec_check"
  /\ notified' = [notified EXCEPT ![arg[p].key] =
                    Notify(@, QuotaNotice(pend[p].daily_request_count))]
  /\ IF /\ QuotaNotice(pend[p].daily_request_count) # "none"
        /\ Delivery(webhook) = "raised"
     THEN /\ lockedBy' = ClosedLocks(p)
          /\ pend' = [pend EXCEPT ![p] = FreshRow]
          /\ arg' = [arg EXCEPT ![p] = NoArg]
          /\ txn' = [txn EXCEPT ![p] = NULL]
          /\ pc' = [pc EXCEPT ![p] = "idle"]
          /\ raised' = [raised EXCEPT ![p] = TRUE]
          /\ UNCHANGED cache
     ELSE /\ cache' = IF QuotaCheckClears(pend[p].daily_request_count, redis)
                      THEN <<>> ELSE cache
          /\ pc' = [pc EXCEPT ![p] = "rec_commit"]
          /\ UNCHANGED <<lockedBy, pend, arg, txn, raised>>
  /\ UNCHANGED <<now, api_keys, usage_log, op, res, keys, calls, round, code,
                 webhook, key_name, retry>>

(* gemini_agent.py line 372: conn.commit() *)
RecCommit(p) ==
  /\ pc[p] = "rec_commit"
  /\ LET k == arg[p].key
     IN /\ api_keys' = [api_keys EXCEPT ![k] = pend[p]]
        /\ usage_log' = [usage_log EXCEPT ![k] = @ + 1]
        /\ lockedBy' = [lockedBy EXCEPT ![k] = Unlocked]
  /\ pend' = [pend EXCEPT ![p] = FreshRow]
  /\ arg' = [arg EXCEPT ![p] = NoArg]
  /\ txn' = [txn EXCEPT ![p] = NULL]
  /\ pc' = [pc EXCEPT ![p] = "idle"]
  /\ UNCHANGED <<now, cache, op, res, keys, calls, round, notified, raised,
                 code, webhook, key_name, retry>>

(* ------------------- track_api_usage.track_usage ---------------------- *)
(* lines 38-47: the read of the counter *)
TrackRead(p, k) ==
  /\ Begin(p, "track", [NoArg EXCEPT !.key = k,
                          !.rd = api_keys[k].daily_request_count])
  /\ pc' = [pc EXCEPT ![p] = "trk_update"]
  /\ UNCHANGED <<now, api_keys, usage_log, lockedBy, cache, txn, res, keys,
                 pend, round, notified, raised, webhook, key_name, retry>>

(* lines 48-57: the values the UPDATE writes *)
TrackedRow(r, current_count) ==
  [r EXCEPT
     !.daily_request_count = current_count + 1,
     !.quota_exhausted = (current_count + 1 >= DAILY_REQUEST_LIMIT)]

(* lines 55-59 and 65: UPDATE, commit, close *)
TrackUpdate(p) ==
  /\ pc[p] = "trk_update"
  /\ LET k == arg[p].key
     IN /\ lockedBy[k] = Unlocked
        /\ api_keys' = [api_keys EXCEPT ![k] = TrackedRow(@, arg[p].rd)]
  /\ arg' = [arg EXCEPT ![p] = NoArg]
  /\ pc' = [pc EXCEPT ![p] = "idle"]
  /\ UNCHANGED <<now, usage_log, lockedBy, cache, txn, op, res, keys, pend,
                 calls, round, notified, raised, code, webhook, key_name, retry>>

(* ------------------------ db_utils.release_key ------------------------ *)
(* an UPDATE that counted the release as a request as well *)
ReleasedRowCounting(r, t) ==
  [r EXCEPT !.last_used = t, !.daily_request_count = @ + 1]

(* lines 190-194: the SET clause of the UPDATE *)
ReleasedRow(r, t) == [r EXCEPT !.last_used = t]

(* lines 185-201: a connection of its own, UPDATE, commit, close *)
Release(p, k) ==
  /\ lockedBy[k] = Unlocked
  /\ Begin(p, "release", NoArg)
  /\ api_keys' = [api_keys EXCEPT ![k] = ReleasedRow(@, now)]
  /\ UNCHANGED <<now, usage_log, lockedBy, cache, txn, pc, res, keys, pend,
                 round, notified, raised, webhook, key_name, retry>>

(* lines 185-194 with the row locked by another transaction: the UPDATE    *)
(* waits for the lock; its NOW() is the start of its own transaction       *)
ReleaseWait(p, k) ==
  /\ lockedBy[k] # Unlocked
  /\ Begin(p, "release", [NoArg EXCEPT !.key = k, !.t = now])
  /\ pc' = [pc EXCEPT ![p] = "rel_update"]
  /\ UNCHANGED <<now, api_keys, usage_log, lockedBy, cache, txn, res, keys,
                 pend, round, notified, raised, webhook, key_name, retry>>

(* lines 190-201: the lock is free; UPDATE, commit, close *)
ReleaseUpdate(p) ==
  /\ pc[p] = "rel_update"
  /\ lockedBy[arg[p].key] = Unlocked
  /\ api_keys' = [api_keys EXCEPT ![arg[p].key] = ReleasedRow(@, arg[p].t)]
  /\ arg' = [arg EXCEPT ![p] = NoArg]
  /\ pc' = [pc EXCEPT ![p] = "idle"]
  /\ UNCHANGED <<now, usage_log, lockedBy, cache, txn, op, res, keys, pend,
                 calls, round, notified, raised, code, webhook, key_name, retry>>

(* --------------- gemini_agent.main: the rate-limit disable ------------- *)
DisabledRow(r, t) == [r EXCEPT !.disabled_until = t + RateLimitCooldown]

(* lines 342-343: UPDATE and commit on the agent's connection *)
DisUpdate(p, k, redis) ==
  /\ lockedBy[k] = Unlocked
  /\ Begin(p, "disable", NoArg)
  /\ api_keys' = [api_keys EXCEPT ![k] = DisabledRow(@, Now(p))]
  /\ txn' = [txn EXCEPT ![p] = NULL]
  /\ pc' = [pc EXCEPT ![p] = IF redis THEN "dis_clear" ELSE "idle"]
  /\ UNCHANGED <<now, usage_log, lockedBy, cache, res, keys, pend, round,
                 notified, raised, webhook, key_name, retry>>

(* lines 339-347: the key disabled is the one the loop got from           *)
(* get_available_key in this iteration                                     *)
RateLimited(p, redis) ==
  /\ op[p] = "gak" /\ res[p] # Empty
  /\ DisUpdate(p, res[p], redis)

(* lines 345-346: redis_conn.delete *)
DisClear(p) ==
  /\ pc[p] = "dis_clear"
  /\ cache' = <<>>
  /\ pc' = [pc EXCEPT ![p] = "idle"]
  /\ UNCHANGED <<now, api_keys, usage_log, lockedBy, txn, op, arg, res, keys,
                 pend, calls, round, notified, raised, code, webhook, key_name, retry>>

(* ------- gemini_agent.main: the identifier of the acquired key -------- *)
(* get_available_key returns (id, key_value) (db_utils.py 149, 176, 178);  *)
(* the loop unpacks it as key_name, api_key (gemini_agent.py 327) and      *)
(* passes the id to statements written WHERE key_name = %s                 *)

(* a lookup that takes its argument for an id *)
ById(v) == {j \in Keys : j = v}

(* WHERE key_name = v: the rows the statement designates *)
ByKeyName(v) == {j \in Keys : key_name[j] = v}

(* line 329: throttle_if_needed with the id; without a row fetchone() is   *)
(* None and line 207 raises into the handler of lines 411-419              *)
AgentThrottle(p) ==
  /\ op[p] = "gak" /\ res[p] # Empty
  /\ IF ByKeyName(res[p]) = {}
     THEN /\ Begin(p, "throttle", NoArg)
          /\ txn' = [txn EXCEPT ![p] = NULL]
          /\ raised' = [raised EXCEPT ![p] = TRUE]
          /\ UNCHANGED <<now, api_keys, usage_log, lockedBy, cache, pc, res,
                         keys, pend, round, notified, webhook, retry, key_name>>
     ELSE \E j \in ByKeyName(res[p]) : ThrottleRead(p, j)

(* lines 370-371: update_key_and_log_usage and check_and_notify_quota_usage *)
(* with the id; without a row the UPDATE changes nothing and line 238      *)
(* raises, so that the handler rolls back                                  *)
AgentRecord(p, tok) ==
  /\ op[p] = "throttle" /\ res[p] # Empty
  /\ IF ByKeyName(res[p]) = {}
     THEN /\ Begin(p, "record", NoArg)
          /\ txn' = [txn EXCEPT ![p] = NULL]
          /\ raised' = [raised EXCEPT ![p] = TRUE]
          /\ UNCHANGED <<now, api_keys, usage_log, lockedBy, cache, pc, res,
                         keys, pend, round, notified, webhook, retry, key_name>>
     ELSE \E j \in ByKeyName(res[p]) : RecUpdate(p, j, tok)

(* lines 339-347: the rate-limit disable with the id; without a row the    *)
(* UPDATE changes nothing, the commit and the cache delete follow          *)
AgentDisable(p, redis) ==
  /\ op[p] = "throttle" /\ res[p] # Empty
  /\ IF ByKeyName(res[p]) = {}
     THEN /\ Begin(p, "disable", NoArg)
          /\ txn' = [txn EXCEPT ![p] = NULL]
          /\ pc' = [pc EXCEPT ![p] = IF redis THEN "dis_clear" ELSE "idle"]
          /\ UNCHANGED <<now, api_keys, usage_log, lockedBy, cache, res, keys,
                         pend, round, notified, raised, webhook, retry,
                         key_name>>
     ELSE \E j \in ByKeyName(res[p]) : DisUpdate(p, j, redis)

(* gemini_openai_proxy.py 77, 132-133: the proxy passes the id to          *)
(* release_key, whose statement is written WHERE id = %s                   *)
ProxyRelease(p) ==
  /\ op[p] = "proxy" /\ res[p] # Empty
  /\ \E j \in ById(res[p]) : Release(p, j) \/ ReleaseWait(p, j)

(* gemini_openai_proxy.py 83-93: the request has no user prompt; it is     *)
(* answered with status 400 before the generator, and with it the finally  *)
(* clause of lines 131-134, exists                                         *)
ProxyReject(p) ==
  /\ pc[p] = "idle" /\ ~raised[p]
  /\ op[p] = "proxy" /\ res[p] # Empty
  /\ op' = [op EXCEPT ![p] = "rejected"]
  /\ code' = [code EXCEPT ![p] = HttpBadRequest]
  /\ UNCHANGED <<now, api_keys, usage_log, lockedBy, cache, txn, pc, arg, res,
                 keys, pend, calls, round, notified, raised, webhook, retry,
                 key_name>>

(* -------- gemini_agent.main: failed generations, an empty pool -------- *)
(* a delay that is not doubled *)
BackoffFlat(delay) == delay

(* line 358: retry_delay *= 2 *)
Backoff(delay) == delay * 2

(* lines 349-359: run_gemini_command returned no response; up to           *)
(* max_retries times the loop sleeps retry_delay seconds and doubles it,   *)
(* after that it leaves the loop and main closes the connection (417-419)  *)
GenFail(p) ==
  /\ pc[p] = "idle" /\ ~raised[p]
  /\ LET retry_count == retry[p].count + 1
         retry_delay == retry[p].delay
     IN IF retry_count > max_retries
        THEN /\ retry' = [retry EXCEPT ![p].count = retry_count]
             /\ txn' = [txn EXCEPT ![p] = NULL]
             /\ arg' = [arg EXCEPT ![p] = NoArg]
             /\ pc' = [pc EXCEPT ![p] = "stopped"]
        ELSE /\ retry' = [retry EXCEPT ![p] =
                            [count |-> retry_count,
                             delay |-> Backoff(retry_delay),
                             slept |-> retry_delay]]
             /\ arg' = [arg EXCEPT ![p] = [NoArg EXCEPT !.t = now + retry_delay]]
             /\ pc' = [pc EXCEPT ![p] = "retry_sleep"]
             /\ UNCHANGED txn
  /\ op' = [op EXCEPT ![p] = "generate"]
  /\ UNCHANGED <<now, api_keys, usage_log, lockedBy, cache, res, keys, pend,
                 calls, round, notified, raised, code, webhook, key_name>>

(* lines 320-325: get_available_key returned None; the loop sleeps         *)
(* KEY_EXHAUSTED_SLEEP_MINUTES and starts over                             *)
AgentExhausted(p) ==
  /\ pc[p] = "idle" /\ ~raised[p]
  /\ op[p] = "gak" /\ calls[p] > 0 /\ res[p] = Empty
  /\ op' = [op EXCEPT ![p] = "exhausted"]
  /\ arg' = [arg EXCEPT ![p] = [NoArg EXCEPT !.t = now + KeyExhaustedSleep]]
  /\ pc' = [pc EXCEPT ![p] = "retry_sleep"]
  /\ UNCHANGED <<now, api_keys, usage_log, lockedBy, cache, txn, res, keys,
                 pend, calls, round, notified, raised, code, webhook, key_name, retry>>

(* lines 324 and 357: time.sleep returns *)
AgentWake(p) ==
  /\ pc[p] = "retry_sleep"
  /\ now >= arg[p].t
  /\ arg' = [arg EXCEPT ![p] = NoArg]
  /\ pc' = [pc EXCEPT ![p] = "idle"]
  /\ UNCHANGED <<now, api_keys, usage_log, lockedBy, cache, txn, op, res,
                 keys, pend, calls, round, notified, raised, code, webhook, key_name,
                 retry>>

(* ------------------ Redis failing after the connection ---------------- *)
(* get_redis_connection (db_utils.py 38-47) turns a failed connect into     *)
(* None; no later Redis command is guarded, so a command that fails raises  *)
(* into the caller, whose handler rolls back, closes and ends the process   *)
(* (gemini_agent.py 411-419)                                                *)

(* db_utils.py line 145: the first lpop raises *)
GakLpopRaise(p) ==
  /\ Begin(p, "gak", NoArg)
  /\ res' = [res EXCEPT ![p] = Empty]
  /\ txn' = [txn EXCEPT ![p] = NULL]
  /\ raised' = [raised EXCEPT ![p] = TRUE]
  /\ UNCHANGED <<now, api_keys, usage_log, lockedBy, cache, pc, keys, pend,
                 round, notified, webhook, key_name, retry>>

(* db_utils.py lines 166, 171, 173: delete, the pipeline or the second lpop *)
(* raises                                                                   *)
GakRaise(p) ==
  /\ pc[p] \in {"gak_delete", "gak_push", "gak_lpop2"}
  /\ keys' = [keys EXCEPT ![p] = <<>>]
  /\ arg' = [arg EXCEPT ![p] = NoArg]
  /\ txn' = [txn EXCEPT ![p] = NULL]
  /\ pc' = [pc EXCEPT ![p] = "idle"]
  /\ raised' = [raised EXCEPT ![p] = TRUE]
  /\ code' = [code EXCEPT ![p] = CodeOnRaise(p)]
  /\ UNCHANGED <<now, api_keys, usage_log, lockedBy, cache, op, res, pend,
                 calls, round, notified, webhook, key_name, retry>>

(* db_utils.py lines 244-250: the error notification is sent, then the      *)
(* fresh connection's ping or delete raises; gemini_agent.py 416: rollback  *)
RecRaise(p) ==
  /\ pc[p] = "rec_check"
  /\ QuotaNotice(pend[p].daily_request_count) = "error"
  /\ notified' = [notified EXCEPT ![arg[p].key] = Notify(@, "error")]
  /\ lockedBy' = [lockedBy EXCEPT ![arg[p].key] = Unlocked]
  /\ pend' = [pend EXCEPT ![p] = FreshRow]
  /\ arg' = [arg EXCEPT ![p] = NoArg]
  /\ txn' = [txn EXCEPT ![p] = NULL]
  /\ pc' = [pc EXCEPT ![p] = "idle"]
  /\ raised' = [raised EXCEPT ![p] = TRUE]
  /\ UNCHANGED <<now, api_keys, usage_log, cache, op, res, keys, calls, round,
                 code, webhook, key_name, retry>>

(* gemini_agent.py line 346: the delete raises, after the commit of 343 *)
DisRaise(p) ==
  /\ pc[p] = "dis_clear"
  /\ pc' = [pc EXCEPT ![p] = "idle"]
  /\ raised' = [raised EXCEPT ![p] = TRUE]
  /\ UNCHANGED <<now, api_keys, usage_log, lockedBy, cache, txn, op, arg, res,
                 keys, pend, calls, round, notified, code, webhook, key_name, retry>>

(* ------------------------- initial states ----------------------------- *)
StartAs(t, table, list, hook, names) ==
  /\ now = t
  /\ api_keys = table
  /\ usage_log = [k \in DOMAIN table |-> 0]
  /\ lockedBy = [k \in DOMAIN table |-> Unlocked]
  /\ cache = list
  /\ txn = [p \in Procs |-> NULL]
  /\ pc = [p \in Procs |-> "idle"]
  /\ op = [p \in Procs |-> "none"]
  /\ arg = [p \in Procs |-> NoArg]
  /\ res = [p \in Procs |-> Empty]
  /\ keys = [p \in Procs |-> <<>>]
  /\ pend = [p \in Procs |-> FreshRow]
  /\ calls = [p \in Procs |-> 0]
  /\ round = [p \in Procs |-> {}]
  /\ notified = [k \in DOMAIN table |-> NoNotice]
  /\ raised = [p \in Procs |-> FALSE]
  /\ code = [p \in Procs |-> NULL]
  /\ webhook = hook
  /\ retry = [p \in Procs |-> NoRetry]
  /\ key_name = names

(* a table in which each row's key_name is the same value as its id *)
NamedById(table) == [k \in DOMAIN table |-> k]

StartWith(t, table, list, hook) ==
  StartAs(t, table, list, hook, NamedById(table))

(* the webhook delivers *)
Start(t, table, list) == StartWith(t, table, list, "ok")

(* key 1 as given, every other key unused *)
Table(r) == [k \in 1..NumKeys |-> IF k = 1 THEN r ELSE FreshRow]

(* the cache is empty, or as a get_available_key that found every key       *)
(* available and returned key 1 left it                                     *)
Leftover == [i \in 1..(NumKeys - 1) |-> i + 1]

(* key 1 unused; key 1 used up under DAILY_REQUEST_LIMIT; key 1 one request *)
(* short of the limit of 60; key 1 two requests short of                    *)
(* DAILY_REQUEST_LIMIT                                                      *)
UsedUpRow == Row(DAILY_REQUEST_LIMIT, 0, NULL, NULL, TRUE)
NearQuotaRow == Row(QuotaLimit - 1, 0, NULL, NULL, FALSE)
NearLimitRow == Row(DAILY_REQUEST_LIMIT - 2, 0, NULL, NULL, FALSE)

(* key 1 one request short of the warning threshold *)
NearWarnRow == Row(WarnThreshold - 1, 0, NULL, NULL, FALSE)

Init ==
  \E r \in {FreshRow, UsedUpRow, NearQuotaRow, NearLimitRow},
     list \in {<<>>, Leftover} : Start(0, Table(r), list)

Next ==
  \/ Tick
  \/ \E p \in Procs, allow \in BOOLEAN, reserve \in ReserveSeconds,
        mark \in BOOLEAN : CliSelect(p, allow, reserve, mark)
  \/ \E p \in Procs : CliUpdate(p)
  \/ \E p \in Procs : CliClose(p)
  \/ \E p \in Procs, f \in SchemaFaults \cup StorageFaults : CliFault(p, f)
  \/ \E p \in Procs : CliUpdateRaise(p)
  \/ \E p \in Procs : CliCrash(p)
  \/ \E p \in Procs, redis \in BOOLEAN : GakLpop(p, redis)
  \/ \E p \in Procs : GakScan(p)
  \/ \E p \in Procs : GakDelete(p)
  \/ \E p \in Procs : GakPush(p)
  \/ \E p \in Procs : GakLpop2(p)
  \/ \E p \in Procs : ConnClose(p)
  \/ \E p \in Procs, k \in Keys, tok \in TokenCounts : RecUpdate(p, k, tok)
  \/ \E p \in Procs, redis \in BOOLEAN : RecCheck(p, redis)
  \/ \E p \in Procs : RecCommit(p)
  \/ \E p \in Procs, k \in Keys : TrackRead(p, k)
  \/ \E p \in Procs : TrackUpdate(p)
  \/ \E p \in Procs, k \in Keys : Release(p, k)
  \/ \E p \in Procs, k \in Keys : ReleaseWait(p, k)
  \/ \E p \in Procs : ReleaseUpdate(p)
  \/ \E p \in Procs, k \in Keys, redis \in BOOLEAN : DisUpdate(p, k, redis)
  \/ \E p \in Procs : DisClear(p)
  \/ \E p \in Procs : GakLpopRaise(p)
  \/ \E p \in Procs : GakRaise(p)
  \/ \E p \in Procs : RecRaise(p)
  \/ \E p \in Procs : DisRaise(p)
  \/ \E p \in Procs, redis \in BOOLEAN : ProxyLpop(p, redis)
  \/ \E p \in Procs : ProxyFault(p)
  \/ \E p \in Procs : GakScanRaise(p)
  \/ \E p \in Procs, k \in Keys : ThrottleRead(p, k)
  \/ \E p \in Procs : ThrottleWake(p)
  \/ \E p \in Procs : GenFail(p)
  \/ \E p \in Procs : AgentExhausted(p)
  \/ \E p \in Procs : AgentWake(p)
  \/ \E p \in Procs, redis \in BOOLEAN : RateLimited(p, redis)
  \/ \E p \in Procs : AgentThrottle(p)
  \/ \E p \in Procs, tok \in TokenCounts : AgentRecord(p, tok)
  \/ \E p \in Procs, redis \in BOOLEAN : AgentDisable(p, redis)
  \/ \E p \in Procs : ProxyRelease(p)
  \/ \E p \in Procs : ProxyReject(p)

Spec == Init /\ [][Next]_vars

(* the pool: selection, cache and cooldown *)
InitPool ==
  \E r \in {FreshRow, UsedUpRow}, list \in {<<>>, Leftover} :
     Start(0, Table(r), list)

NextPool ==
  \/ Tick
  \/ \E p \in Procs, allow \in BOOLEAN, reserve \in ReserveSeconds,
        mark \in BOOLEAN : CliSelect(p, allow, reserve, mark)
  \/ \E p \in Procs : CliUpdate(p)
  \/ \E p \in Procs : CliClose(p)
  \/ \E p \in Procs, redis \in BOOLEAN : GakLpop(p, redis)
  \/ \E p \in Procs : GakScan(p)
  \/ \E p \in Procs : GakDelete(p)
  \/ \E p \in Procs : GakPush(p)
  \/ \E p \in Procs : GakLpop2(p)
  \/ \E p \in Procs : ConnClose(p)
  \/ \E p \in Procs, k \in Keys, redis \in BOOLEAN : DisUpdate(p, k, redis)
  \/ \E p \in Procs : DisClear(p)

SpecPool == InitPool /\ [][NextPool]_vars

(* usage recording *)
InitUsage ==
  \E r \in {NearQuotaRow, NearLimitRow} : Start(0, Table(r), <<>>)

NextUsage ==
  \/ Tick
  \/ \E p \in Procs, allow \in BOOLEAN, reserve \in ReserveSeconds,
        mark \in BOOLEAN : CliSelect(p, allow, reserve, mark)
  \/ \E p \in Procs : CliUpdate(p)
  \/ \E p \in Procs : CliClose(p)
  \/ \E p \in Procs, k \in Keys, tok \in TokenCounts : RecUpdate(p, k, tok)
  \/ \E p \in Procs, redis \in BOOLEAN : RecCheck(p, redis)
  \/ \E p \in Procs : RecCommit(p)
  \/ \E p \in Procs, k \in Keys : TrackRead(p, k)
  \/ \E p \in Procs : TrackUpdate(p)
  \/ \E p \in Procs, k \in Keys : Release(p, k)
  \/ \E p \in Procs, k \in Keys, redis \in BOOLEAN : DisUpdate(p, k, redis)
  \/ \E p \in Procs : DisClear(p)

SpecUsage == InitUsage /\ [][NextUsage]_vars

(* sequential calls of one caller against three used keys: A (key 1) with *)
(* 10 requests, B (key 2) with 2, C (key 3) with 2 and an older last_used  *)
OrderTable ==
  <<Row(10, 0, 0, NULL, FALSE), Row(2, 0, 1, NULL, FALSE),
    Row(2, 0, 0, NULL, FALSE)>>

InitOrder == Start(1, OrderTable, <<>>)

NextOrder ==
  \/ Tick
  \/ \E allow \in BOOLEAN, reserve \in ReserveSeconds, mark \in BOOLEAN :
        CliSelect(1, allow, reserve, mark)
  \/ CliUpdate(1)
  \/ CliClose(1)
  \/ \E redis \in BOOLEAN : GakLpop(1, redis)
  \/ GakScan(1)
  \/ GakDelete(1)
  \/ GakPush(1)
  \/ GakLpop2(1)
  \/ ConnClose(1)

SpecOrder == InitOrder /\ [][NextOrder]_vars

(* usage recording around the thresholds of check_and_notify_quota_usage, *)
(* with the increments of select_key --mark-use and track_usage            *)
InitRecord ==
  \E r \in {NearWarnRow, NearQuotaRow}, list \in {<<>>, Leftover} :
     Start(0, Table(r), list)

NextRecord ==
  \/ Tick
  \/ \E p \in Procs, k \in Keys, tok \in TokenCounts : RecUpdate(p, k, tok)
  \/ \E p \in Procs, redis \in BOOLEAN : RecCheck(p, redis)
  \/ \E p \in Procs : RecCommit(p)
  \/ \E p \in Procs : RecRaise(p)
  \/ \E p \in Procs, k \in Keys : TrackRead(p, k)
  \/ \E p \in Procs : TrackUpdate(p)
  \/ \E p \in Procs, allow \in BOOLEAN, reserve \in ReserveSeconds,
        mark \in BOOLEAN : CliSelect(p, allow, reserve, mark)
  \/ \E p \in Procs : CliUpdate(p)
  \/ \E p \in Procs : CliClose(p)

SpecRecord == InitRecord /\ [][NextRecord]_vars

(* the agent's loop (get_available_key, usage recording, rate-limit        *)
(* disable) with Redis commands that can fail after the connection was made *)
InitAgent ==
  \E r \in {FreshRow, NearQuotaRow}, list \in {<<>>, Leftover} :
     Start(0, Table(r), list)

NextAgent ==
  \/ Tick
  \/ \E p \in Procs, redis \in BOOLEAN : GakLpop(p, redis)
  \/ \E p \in Procs : GakScan(p)
  \/ \E p \in Procs : GakDelete(p)
  \/ \E p \in Procs : GakPush(p)
  \/ \E p \in Procs : GakLpop2(p)
  \/ \E p \in Procs : ConnClose(p)
  \/ \E p \in Procs, k \in Keys, tok \in TokenCounts : RecUpdate(p, k, tok)
  \/ \E p \in Procs, redis \in BOOLEAN : RecCheck(p, redis)
  \/ \E p \in Procs : RecCommit(p)
  \/ \E p \in Procs, k \in Keys, redis \in BOOLEAN : DisUpdate(p, k, redis)
  \/ \E p \in Procs : DisClear(p)
  \/ \E p \in Procs : GakLpopRaise(p)
  \/ \E p \in Procs : GakRaise(p)
  \/ \E p \in Procs : RecRaise(p)
  \/ \E p \in Procs : DisRaise(p)

SpecAgent == InitAgent /\ [][NextAgent]_vars

(* selection with soft reservations beside the cached get_available_key:  *)
(* disabled_until is written by --reserve alone                            *)
InitReserve == \E list \in {<<>>, Leftover} : Start(0, Table(FreshRow), list)

NextReserve ==
  \/ Tick
  \/ \E p \in Procs, allow \in BOOLEAN, reserve \in ReserveSeconds,
        mark \in BOOLEAN : CliSelect(p, allow, reserve, mark)
  \/ \E p \in Procs : CliUpdate(p)
  \/ \E p \in Procs : CliClose(p)
  \/ \E p \in Procs, redis \in BOOLEAN : GakLpop(p, redis)
  \/ \E p \in Procs : GakScan(p)
  \/ \E p \in Procs : GakDelete(p)
  \/ \E p \in Procs : GakPush(p)
  \/ \E p \in Procs : GakLpop2(p)
  \/ \E p \in Procs : ConnClose(p)

SpecReserve == InitReserve /\ [][NextReserve]_vars

(* the proxy's use of a key (get_available_key, then release_key when the  *)
(* stream ends) beside the agent's usage recording, on keys that carry     *)
(* counters, a cooldown and a last_used                                    *)
ReleaseTable ==
  <<Row(3, 7, 0, NULL, FALSE), Row(QuotaLimit - 1, 2, NULL, 1, FALSE)>>

InitRelease == \E list \in {<<>>, Leftover} : Start(1, ReleaseTable, list)

NextRelease ==
  \/ Tick
  \/ \E p \in Procs, redis \in BOOLEAN : GakLpop(p, redis)
  \/ \E p \in Procs : GakScan(p)
  \/ \E p \in Procs : GakDelete(p)
  \/ \E p \in Procs : GakPush(p)
  \/ \E p \in Procs : GakLpop2(p)
  \/ \E p \in Procs : ConnClose(p)
  \/ \E p \in Procs, k \in Keys, tok \in TokenCounts : RecUpdate(p, k, tok)
  \/ \E p \in Procs, redis \in BOOLEAN : RecCheck(p, redis)
  \/ \E p \in Procs : RecCommit(p)
  \/ \E p \in Procs, k \in Keys : Release(p, k)
  \/ \E p \in Procs, k \in Keys : ReleaseWait(p, k)
  \/ \E p \in Procs : ReleaseUpdate(p)

SpecRelease == InitRelease /\ [][NextRelease]_vars

(* runs of select_key.py alone, against a database that can be at fault *)
InitCli == \E r \in {FreshRow, UsedUpRow} : Start(0, Table(r), <<>>)

NextCli ==
  \/ Tick
  \/ \E p \in Procs, allow \in BOOLEAN, reserve \in ReserveSeconds,
        mark \in BOOLEAN : CliSelect(p, allow, reserve, mark)
  \/ \E p \in Procs : CliUpdate(p)
  \/ \E p \in Procs : CliClose(p)
  \/ \E p \in Procs, f \in SchemaFaults \cup StorageFaults : CliFault(p, f)
  \/ \E p \in Procs : CliUpdateRaise(p)

SpecCli == InitCli /\ [][NextCli]_vars

(* the three callers of the pool, each meeting an exhausted pool and a      *)
(* database that cannot be reached or fails                                *)
UsedUpTable == [k \in 1..NumKeys |-> UsedUpRow]

InitCallers ==
  \E table \in {UsedUpTable, Table(FreshRow)} : Start(0, table, <<>>)

NextCallers ==
  \/ Tick
  \/ \E p \in Procs : CliSelect(p, FALSE, 0, FALSE)
  \/ \E p \in Procs : CliClose(p)
  \/ \E p \in Procs, f \in StorageFaults : CliFault(p, f)
  \/ \E p \in Procs, redis \in BOOLEAN : GakLpop(p, redis)
  \/ \E p \in Procs, redis \in BOOLEAN : ProxyLpop(p, redis)
  \/ \E p \in Procs : ProxyFault(p)
  \/ \E p \in Procs : GakScan(p)
  \/ \E p \in Procs : GakScanRaise(p)
  \/ \E p \in Procs : GakDelete(p)
  \/ \E p \in Procs : GakPush(p)
  \/ \E p \in Procs : GakLpop2(p)
  \/ \E p \in Procs : ConnClose(p)

SpecCallers == InitCallers /\ [][NextCallers]_vars

(* callers that acquire keys and never give them back: no release_key, no  *)
(* usage recording; a selector may be killed while it holds its claim. The *)
(* clock runs on, and a selector past its SELECT goes on to its close or   *)
(* dies: it waits for nothing                                              *)
InitAbandon == \E list \in {<<>>, Leftover} : Start(0, Table(FreshRow), list)

NextAbandon ==
  \/ Tick
  \/ \E p \in Procs, reserve \in ReserveSeconds, mark \in BOOLEAN :
        CliSelect(p, FALSE, reserve, mark)
  \/ \E p \in Procs : CliUpdate(p)
  \/ \E p \in Procs : CliClose(p)
  \/ \E p \in Procs : CliCrash(p)
  \/ \E p \in Procs, redis \in BOOLEAN : GakLpop(p, redis)
  \/ \E p \in Procs : GakScan(p)
  \/ \E p \in Procs : GakDelete(p)
  \/ \E p \in Procs : GakPush(p)
  \/ \E p \in Procs : GakLpop2(p)
  \/ \E p \in Procs : ConnClose(p)

FairAbandon ==
  /\ WF_vars(Tick)
  /\ \A p \in Procs : WF_vars(CliUpdate(p) \/ CliClose(p) \/ CliCrash(p))

SpecAbandon == InitAbandon /\ [][NextAbandon]_vars /\ FairAbandon

(* the agent's loop with a Slack webhook in each of its states: usage      *)
(* recording at the thresholds of check_and_notify_quota_usage, and        *)
(* get_available_key against a pool with no key left                       *)
InitNotify ==
  \E hook \in Webhooks,
     table \in {Table(NearWarnRow), Table(NearQuotaRow), UsedUpTable} :
     StartWith(0, table, <<>>, hook)

NextNotify ==
  \/ Tick
  \/ \E p \in Procs, redis \in BOOLEAN : GakLpop(p, redis)
  \/ \E p \in Procs : GakScan(p)
  \/ \E p \in Procs : GakDelete(p)
  \/ \E p \in Procs : GakPush(p)
  \/ \E p \in Procs : GakLpop2(p)
  \/ \E p \in Procs : ConnClose(p)
  \/ \E p \in Procs, k \in Keys, tok \in TokenCounts : RecUpdate(p, k, tok)
  \/ \E p \in Procs, redis \in BOOLEAN : RecCheck(p, redis)
  \/ \E p \in Procs : RecCommit(p)

SpecNotify == InitNotify /\ [][NextNotify]_vars

(* throttle_if_needed on a key used at time 0 and on a key never used,     *)
(* called at once or an interval later, beside the calls that set          *)
(* last_used                                                               *)
ThrottleTable == <<Row(1, 0, 0, NULL, FALSE), FreshRow>>

InitThrottle ==
  \E t \in {0, 1, MIN_REQUEST_INTERVAL_SECONDS} : Start(t, ThrottleTable, <<>>)

NextThrottle ==
  \/ Tick
  \/ \E p \in Procs, k \in Keys : ThrottleRead(p, k)
  \/ \E p \in Procs : ThrottleWake(p)
  \/ \E p \in Procs, k \in Keys, tok \in TokenCounts : RecUpdate(p, k, tok)
  \/ \E p \in Procs, redis \in BOOLEAN : RecCheck(p, redis)
  \/ \E p \in Procs : RecCommit(p)
  \/ \E p \in Procs, k \in Keys : Release(p, k)
  \/ \E p \in Procs : ConnClose(p)

SpecThrottle == InitThrottle /\ [][NextThrottle]_vars

(* the loop of one agent, process 1, with generations that fail, succeed   *)
(* or are rate-limited, over a pool that can be used up and that another   *)
(* process uses too                                                        *)
InitRetry == \E r \in {FreshRow, UsedUpRow} : Start(0, <<r, UsedUpRow>>, <<>>)

NextRetry ==
  \/ Tick
  \/ \E p \in Procs : GakLpop(p, FALSE)
  \/ \E p \in Procs : GakScan(p)
  \/ AgentExhausted(1)
  \/ GenFail(1)
  \/ AgentWake(1)
  \/ \E p \in Procs, tok \in TokenCounts : RecUpdate(p, 1, tok)
  \/ \E p \in Procs : RecCheck(p, FALSE)
  \/ \E p \in Procs : RecCommit(p)
  \/ \E p \in Procs : DisUpdate(p, 1, FALSE)

SpecRetry == InitRetry /\ [][NextRetry]_vars

(* agents with a Redis connection over two fresh keys; the runs start      *)
(* with an empty cache, or while process 2 is in the refill of its         *)
(* get_available_key call: it has missed the cache and its scan has        *)
(* returned both keys (db_utils.py 145-160)                                *)
InRefill ==
  /\ now = 0
  /\ api_keys = Table(FreshRow)
  /\ usage_log = [k \in 1..NumKeys |-> 0]
  /\ lockedBy = [k \in 1..NumKeys |-> Unlocked]
  /\ cache = <<>>
  /\ txn = [p \in Procs |-> IF p = 2 THEN 0 ELSE NULL]
  /\ pc = [p \in Procs |-> IF p = 2 THEN "gak_delete" ELSE "idle"]
  /\ op = [p \in Procs |-> IF p = 2 THEN "gak" ELSE "none"]
  /\ arg = [p \in Procs |->
             IF p = 2 THEN [NoArg EXCEPT !.redis = TRUE] ELSE NoArg]
  /\ res = [p \in Procs |-> Empty]
  /\ keys = [p \in Procs |-> IF p = 2 THEN <<1, 2>> ELSE <<>>]
  /\ pend = [p \in Procs |-> FreshRow]
  /\ calls = [p \in Procs |-> 0]
  /\ round = [p \in Procs |-> {}]
  /\ notified = [k \in 1..NumKeys |-> NoNotice]
  /\ raised = [p \in Procs |-> FALSE]
  /\ code = [p \in Procs |-> NULL]
  /\ webhook = "ok"
  /\ retry = [p \in Procs |-> NoRetry]
  /\ key_name = NamedById(api_keys)

InitRateLimit == Start(0, Table(FreshRow), <<>>) \/ InRefill

NextRateLimit ==
  \/ Tick
  \/ \E p \in Procs : GakLpop(p, TRUE)
  \/ \E p \in Procs : GakScan(p)
  \/ \E p \in Procs : GakDelete(p)
  \/ \E p \in Procs : GakPush(p)
  \/ \E p \in Procs : GakLpop2(p)
  \/ \E p \in Procs : RateLimited(p, TRUE)
  \/ \E p \in Procs : DisClear(p)

SpecRateLimit == InitRateLimit /\ [][NextRateLimit]_vars

(* the cache under concurrent get_available_key calls and rate-limit      *)
(* disables, over a table whose first key can be marked exhausted          *)
InitCache ==
  \E r \in {FreshRow, UsedUpRow}, list \in {<<>>, Leftover} :
     Start(0, Table(r), list)

NextCache ==
  \/ Tick
  \/ \E p \in Procs, redis \in BOOLEAN : GakLpop(p, redis)
  \/ \E p \in Procs : GakScan(p)
  \/ \E p \in Procs : GakDelete(p)
  \/ \E p \in Procs : GakPush(p)
  \/ \E p \in Procs : GakLpop2(p)
  \/ \E p \in Procs : ConnClose(p)
  \/ \E p \in Procs, k \in Keys, redis \in BOOLEAN : DisUpdate(p, k, redis)
  \/ \E p \in Procs : DisClear(p)

SpecCache == InitCache /\ [][NextCache]_vars

(* the callers of get_available_key and what they do with the identifier  *)
(* it returns, over tables whose key names are the values of the rows' own *)
(* ids, of the other rows' ids, or of no id (names from the keys file,     *)
(* populate_keys.py 31-56)                                                 *)
Namings == {<<1, 2>>, <<2, 1>>, <<NumKeys + 1, NumKeys + 2>>}

InitIdent ==
  \E names \in Namings, table \in {Table(FreshRow), ThrottleTable} :
     StartAs(0, table, <<>>, "ok", names)

NextIdent ==
  \/ Tick
  \/ \E p \in Procs : GakLpop(p, FALSE)
  \/ \E p \in Procs : ProxyLpop(p, FALSE)
  \/ \E p \in Procs : GakScan(p)
  \/ \E p \in Procs : ConnClose(p)
  \/ \E p \in Procs : AgentThrottle(p)
  \/ \E p \in Procs : ThrottleWake(p)
  \/ \E p \in Procs, tok \in TokenCounts : AgentRecord(p, tok)
  \/ \E p \in Procs : RecCheck(p, FALSE)
  \/ \E p \in Procs : RecCommit(p)
  \/ \E p \in Procs : AgentDisable(p, FALSE)
  \/ \E p \in Procs : ProxyRelease(p)

SpecIdent == InitIdent /\ [][NextIdent]_vars

(* requests to the proxy: the key is acquired, then the request is         *)
(* rejected or streamed to its end                                         *)
InitProxy ==
  \E list \in {<<>>, Leftover} : Start(0, Table(FreshRow), list)

NextProxy ==
  \/ Tick
  \/ \E p \in Procs, redis \in BOOLEAN : ProxyLpop(p, redis)
  \/ \E p \in Procs : GakScan(p)
  \/ \E p \in Procs : GakDelete(p)
  \/ \E p \in Procs : GakPush(p)
  \/ \E p \in Procs : GakLpop2(p)
  \/ \E p \in Procs : ProxyReject(p)
  \/ \E p \in Procs : ProxyRelease(p)

SpecProxy == InitProxy /\ [][NextProxy]_vars

(* ======================= the claims, C1 to C10 ======================== *)
(* p's Acquire hands key k to its caller in this step *)
Delivers(p, k) ==
  /\ k # Empty
  /\ res'[p] = k
  /\ op'[p] \in {"cli", "gak"}
  /\ res[p] = Empty \/ calls'[p] = calls[p] + 1

(* p's operation ends in this step *)
Finishes(p) ==
  pc'[p] = "idle" /\ (pc[p] # "idle" \/ calls'[p] = calls[p] + 1)

(* the availability of section 3 of the specification, without            *)
(* allowExhausted                                                         *)
Usable(r, t) ==
  ~r.quota_exhausted /\ (r.disabled_until = NULL \/ r.disabled_until < t)

Cached == {cache[i] : i \in 1..Len(cache)}

(* C1: two Acquire calls of one claim round (calls whose claims overlap in *)
(* time) never return the same key                                        *)
C1_DistinctKeys ==
  \A p, q \in Procs :
    (p # q /\ q \in round[p] /\ ~InClaim(p) /\ ~InClaim(q) /\ res[p] # Empty)
      => res[p] # res[q]

(* C2: no step of an Acquire waits for a row another caller holds: the     *)
(* selector's SELECT, UPDATE and close and every step of                   *)
(* get_available_key can always be taken; and a selector that finds every  *)
(* selectable row claimed by others returns Empty at once                  *)
C2_StepsEnabled ==
  \A p \in Procs :
    /\ MayStart(p) =>
         \A allow \in BOOLEAN, reserve \in ReserveSeconds, mark \in BOOLEAN :
           ENABLED CliSelect(p, allow, reserve, mark)
    /\ MayStart(p) => \A redis \in BOOLEAN : ENABLED GakLpop(p, redis)
    /\ pc[p] = "cli_update" => ENABLED CliUpdate(p)
    /\ pc[p] = "cli_close" => ENABLED CliClose(p)
    /\ pc[p] = "gak_scan" => ENABLED GakScan(p)
    /\ pc[p] = "gak_delete" => ENABLED GakDelete(p)
    /\ pc[p] = "gak_push" => ENABLED GakPush(p)
    /\ pc[p] = "gak_lpop2" => ENABLED GakLpop2(p)

C2_EmptyWhenClaimed ==
  \A p \in Procs :
    ( /\ calls'[p] = calls[p] + 1
      /\ op'[p] = "cli"
      /\ \A k \in Keys :
           (api_keys[k].disabled_until = NULL
              \/ api_keys[k].disabled_until < now)
             => lockedBy[k] \notin {Unlocked, p} )
      => (pc'[p] = "idle" /\ res'[p] = Empty /\ lockedBy' = lockedBy)

(* C2: an Acquire never waits on a row another caller holds, and returns   *)
(* Empty at once when every selectable row is claimed                      *)
C2_NeverBlocks == []C2_StepsEnabled /\ [][C2_EmptyWhenClaimed]_vars

(* a selector returned Empty while a usable key was locked by a caller of  *)
(* the same round                                                          *)
C2_Witness ==
  \E p, q \in Procs, k \in Keys :
    /\ p # q /\ q \in round[p]
    /\ lockedBy[k] = q /\ Usable(api_keys[k], now)
    /\ op[p] = "cli" /\ pc[p] = "idle" /\ calls[p] > 0 /\ res[p] = Empty

(* C3: a get_available_key call made while no key is available returns     *)
(* Empty, from the cache pop as well as from the scan                      *)
C3_EmptyWhenNoneAvailable ==
  [][\A p \in Procs :
       ( /\ \A k \in Keys : ~Usable(api_keys[k], now)
         /\ op'[p] = "gak" /\ pc'[p] = "idle"
         /\ calls'[p] = calls[p] + 1 \/ pc[p] = "gak_scan" )
         => res'[p] = Empty]_vars

SortsBefore(r1, r2) ==
  LET c1 == r1.daily_request_count  c2 == r2.daily_request_count
      t1 == r1.daily_token_total    t2 == r2.daily_token_total
      u1 == r1.last_used            u2 == r2.last_used
  IN \/ c1 < c2
     \/ c1 = c2 /\ t1 < t2
     \/ c1 = c2 /\ t1 = t2 /\ u1 = NULL /\ u2 # NULL
     \/ c1 = c2 /\ t1 = t2 /\ u1 # NULL /\ u2 # NULL /\ u1 < u2

(* C4, amended: the selector claims a row that no selectable row (not in   *)
(* cooldown, not locked, and not exhausted unless the claimed row is) comes *)
(* before                                                                  *)
C4_SelectorTakesFirst ==
  \A p \in Procs, k \in Keys :
    (calls'[p] = calls[p] + 1 /\ op'[p] = "cli" /\ arg'[p].key = k)
      => \A j \in Keys :
           ( /\ api_keys[j].disabled_until = NULL
                  \/ api_keys[j].disabled_until < now
             /\ lockedBy[j] = Unlocked
             /\ ~api_keys[j].quota_exhausted \/ api_keys[k].quota_exhausted )
             => ~SortsBefore(api_keys[j], api_keys[k])

(* the scan of get_available_key is ordered by last_used alone, NULL first *)
C4_ScanByLastUsed ==
  \A p \in Procs :
    (pc[p] = "gak_scan" /\ pc'[p] = "gak_delete")
      => \A i, j \in 1..Len(keys'[p]) :
           i < j =>
             LET ui == api_keys[keys'[p][i]].last_used
                 uj == api_keys[keys'[p][j]].last_used
             IN ui = NULL \/ (uj # NULL /\ ui <= uj)

(* while no call has changed a row of A, B, C every selector call returns C *)
C4_UnchangedReturnsC ==
  (api_keys = OrderTable /\ op[1] = "cli" /\ pc[1] = "idle") => res[1] = 3

C5_RecordSetsQuotaFlag ==
  [][\A p \in Procs :
       ( /\ pc[p] = "rec_commit" /\ pc'[p] = "idle"
         /\ api_keys[arg[p].key].daily_request_count = QuotaLimit - 1
         /\ api_keys'[arg[p].key].daily_request_count = QuotaLimit )
         => api_keys'[arg[p].key].quota_exhausted]_vars

(* C6: no Acquire, by the selector or by get_available_key, hands out a    *)
(* key at an instant at which the key is in cooldown                       *)
C6_NoKeyInCooldown ==
  [][\A p \in Procs, k \in Keys :
       Delivers(p, k) =>
         (api_keys[k].disabled_until = NULL
            \/ api_keys[k].disabled_until < now)]_vars

(* C7: a get_available_key call that starts after a key was disabled in    *)
(* KeyStore is not served that key from the cache                          *)
C7_CacheNeverServesDisabled ==
  [][\A p \in Procs :
       ( /\ calls'[p] = calls[p] + 1 /\ op'[p] = "gak"
         /\ cache # <<>> /\ cache' = Tail(cache) )
         => LET r == api_keys[Head(cache)]
            IN r.disabled_until = NULL \/ r.disabled_until < now]_vars

(* C8: when an operation that made a key unavailable ends, the cache holds *)
(* no entry for the key                                                    *)
C8_UnavailableNotCached ==
  [][\A k \in Keys :
       ( /\ Usable(api_keys[k], now) /\ ~Usable(api_keys'[k], now)
         /\ \E p \in Procs : Finishes(p) )
         => k \notin Cached']_vars

(* C9: no step decreases daily_request_count or daily_token_total          *)
C9_CountersNeverDecrease ==
  [][\A k \in Keys :
       /\ api_keys'[k].daily_request_count >= api_keys[k].daily_request_count
       /\ api_keys'[k].daily_token_total >= api_keys[k].daily_token_total]_vars

(* C10: no step sets quota_exhausted back to false                         *)
C10_QuotaFlagSticky ==
  [][\A k \in Keys :
       api_keys[k].quota_exhausted => api_keys'[k].quota_exhausted]_vars

(* ======================= the claims, C11 to C20 ======================= *)
(* C11: every usage-recording operation that completes (a Record commit or *)
(* the UPDATE of track_usage) leaves daily_request_count one above the     *)
(* value committed just before it, so that k operations add k              *)
C11_NoLostUpdate ==
  [][\A p \in Procs :
       (pc[p] \in {"rec_commit", "trk_update"} /\ pc'[p] = "idle")
         => api_keys'[arg[p].key].daily_request_count
              = api_keys[arg[p].key].daily_request_count + 1]_vars

(* C12: the commit of a Record grows daily_request_count by 1 and          *)
(* daily_token_total by the call's token count and appends one usage_log   *)
(* row; the last_used it publishes is the time at which the Record was     *)
(* called; a step of a Record that is not its commit changes no committed  *)
(* row                                                                     *)
C12_RecordAllOrNothing ==
  [][\A p \in Procs :
       LET k == arg[p].key
       IN /\ (pc[p] = "rec_commit" /\ pc'[p] = "idle") =>
               /\ api_keys'[k].daily_request_count
                    = api_keys[k].daily_request_count + 1
               /\ api_keys'[k].daily_token_total - api_keys[k].daily_token_total
                    \in TokenCounts
               /\ api_keys'[k].last_used = pend[p].last_used
               /\ usage_log'[k] = usage_log[k] + 1
          /\ (pc[p] = "rec_check" /\ pc'[p] # "rec_check") =>
               (api_keys' = api_keys /\ usage_log' = usage_log)
          /\ (calls'[p] = calls[p] + 1 /\ op'[p] = "record") =>
               /\ api_keys' = api_keys /\ usage_log' = usage_log
               /\ pend'[p].last_used = now]_vars

(* C13: a Record that commits a daily_request_count at or above the limit  *)
(* of 60 commits quota_exhausted = true, leaves the cache empty and has    *)
(* sent an error notification                                              *)
C13_LimitReachedHandled ==
  [][\A p \in Procs :
       LET k == arg[p].key
       IN ( /\ pc[p] = "rec_commit" /\ pc'[p] = "idle"
            /\ api_keys'[k].daily_request_count >= QuotaLimit )
            => /\ api_keys'[k].quota_exhausted
               /\ cache' = <<>>
               /\ notified'[k].error >= 1]_vars

(* a warning is sent only by the Record that holds the row and takes its   *)
(* count from one below the threshold to the threshold                     *)
C14_WarnsOnlyOnCrossing ==
  \A k \in Keys :
    notified'[k].warning # notified[k].warning =>
      /\ notified'[k].warning = notified[k].warning + 1
      /\ \E p \in Procs :
           /\ pc[p] = "rec_check" /\ arg[p].key = k /\ lockedBy[k] = p
           /\ api_keys[k].daily_request_count = WarnThreshold - 1
           /\ pend[p].daily_request_count = WarnThreshold

(* a Record on a key already at or above the threshold sends no warning *)
C14_NoRefireAbove ==
  \A p \in Procs :
    ( /\ pc[p] = "rec_check" /\ pc'[p] # "rec_check"
      /\ api_keys[arg[p].key].daily_request_count >= WarnThreshold )
      => notified'[arg[p].key].warning = notified[arg[p].key].warning

(* the one crossing a key can make here is announced at most once *)
C14_WarnedAtMostOnce == \A k \in Keys : notified[k].warning <= 1

(* C14: across the Record calls of all processes the near-quota warning is *)
(* sent at most once for a crossing of the threshold, and Records that     *)
(* keep the count above the threshold send none                            *)
C14_WarningOncePerCrossing ==
  /\ [][C14_WarnsOnlyOnCrossing]_vars
  /\ [][C14_NoRefireAbove]_vars
  /\ []C14_WarnedAtMostOnce

(* a key was warned about once and a later Record has taken it above the   *)
(* threshold without another warning                                       *)
C14_Witness ==
  \E k \in Keys :
    /\ notified[k].warning = 1
    /\ usage_log[k] >= 2
    /\ api_keys[k].daily_request_count > WarnThreshold

(* C15: a step that takes daily_request_count from below the warning       *)
(* threshold to it or above it, by whichever operation, leaves exactly one *)
(* warning sent for the key                                                *)
C15_CrossingNotifies ==
  [][\A k \in Keys :
       ( /\ api_keys[k].daily_request_count < WarnThreshold
         /\ api_keys'[k].daily_request_count >= WarnThreshold )
         => notified'[k].warning = 1]_vars

(* C16: an Acquire hands out a key only if, at that moment, the key is not *)
(* in cooldown and is not quota-exhausted, unless it is the selector,      *)
(* which alone can be told to allow exhausted keys                         *)
C16_ReturnedOnlyIfAvailable ==
  [][\A p \in Procs, k \in Keys :
       Delivers(p, k) =>
         /\ api_keys[k].disabled_until = NULL
              \/ api_keys[k].disabled_until < now
         /\ api_keys[k].quota_exhausted => op'[p] = "cli"]_vars

(* C17: an Acquire without flags changes no row; with flags it changes the *)
(* selected row only, as the flags say; and between the selector's SELECT  *)
(* and its UPDATE no other caller is handed the selected key               *)
C17_SelectionFrame ==
  [][\A p \in Procs :
       LET k == arg[p].key
       IN /\ ( \/ pc[p] = "cli_close" /\ pc'[p] = "idle"
               \/ op'[p] = "gak" /\ pc'[p] # pc[p]
               \/ calls'[p] = calls[p] + 1 /\ op'[p] \in {"cli", "gak"} )
               => api_keys' = api_keys
          /\ (pc[p] = "cli_update" /\ pc'[p] = "idle") =>
               /\ \A j \in Keys \ {k} : api_keys'[j] = api_keys[j]
               /\ api_keys'[k].daily_request_count
                    = api_keys[k].daily_request_count
                        + (IF arg[p].mark THEN 1 ELSE 0)
               /\ arg[p].mark => api_keys'[k].last_used = arg[p].t
               /\ arg[p].reserve > 0 =>
                    api_keys'[k].disabled_until = arg[p].t + arg[p].reserve
               /\ api_keys'[k].quota_exhausted = api_keys[k].quota_exhausted
               /\ api_keys'[k].daily_token_total = api_keys[k].daily_token_total
          /\ pc[p] \in {"cli_update", "cli_close"} =>
               \A q \in Procs \ {p} : ~Delivers(q, k)]_vars

(* C18: while the reservation of a key the selector returned to one caller *)
(* is running, no Acquire of another caller returns the key                *)
C18_ReservedNotReturned ==
  [][\A p, q \in Procs, k \in Keys :
       ( /\ p # q /\ op[p] = "cli" /\ pc[p] = "idle" /\ res[p] = k
         /\ api_keys[k].disabled_until # NULL
         /\ api_keys[k].disabled_until >= now )
         => ~Delivers(q, k)]_vars

(* C19: the cache never holds more entries than one scan can return, nor   *)
(* one key twice                                                          *)
C19_RefillReplaces ==
  /\ Len(cache) <= Cardinality(Keys)
  /\ \A i, j \in 1..Len(cache) : i # j => cache[i] # cache[j]

(* C20: a get_available_key that misses the cache returns the first row of *)
(* its own scan, and no operation ends in the exception handler because a  *)
(* Redis command failed                                                    *)
C20_CacheFailureHarmless ==
  [][\A p \in Procs :
       /\ (pc[p] = "gak_lpop2" /\ pc'[p] = "idle" /\ ~raised'[p])
            => res'[p] = keys[p][1]
       /\ ~raised'[p]]_vars

(* ======================= the claims, C21 to C30 ======================= *)
(* the results the scan of get_available_key alone gives at time t: the    *)
(* first row of a possible result list, or Empty when no row qualifies     *)
ScanResults(t) ==
  IF GakQuery(t) = {<<>>} THEN {Empty} ELSE {s[1] : s \in GakQuery(t)}

(* C21: whatever the cache holds, a get_available_key call that returns    *)
(* hands its caller a result the scan alone could give against the rows    *)
(* committed at that moment: no unavailable key, and no Empty while a key  *)
(* is available                                                            *)
C21_CacheLossHarmless ==
  [][\A p \in Procs :
       (op'[p] = "gak" /\ Finishes(p) /\ ~raised'[p])
         => res'[p] \in ScanResults(Now(p))]_vars

(* the frame of a release of key k whose UPDATE ran with NOW() = t: the    *)
(* row differs in last_used at most, and no other row, no usage_log row,   *)
(* no lock and no cache entry changes                                      *)
C22_OnlyLastUsed(k, t) ==
  /\ api_keys'[k].last_used = t
  /\ api_keys'[k].daily_request_count = api_keys[k].daily_request_count
  /\ api_keys'[k].daily_token_total = api_keys[k].daily_token_total
  /\ api_keys'[k].disabled_until = api_keys[k].disabled_until
  /\ api_keys'[k].quota_exhausted = api_keys[k].quota_exhausted
  /\ \A j \in Keys \ {k} : api_keys'[j] = api_keys[j]
  /\ UNCHANGED <<cache, usage_log, lockedBy, notified>>

C23_DisableFrame ==
  [][\A p \in Procs, k \in Keys :
       (\E redis \in BOOLEAN : DisUpdate(p, k, redis))
         => /\ api_keys'[k] =
                 [api_keys[k] EXCEPT !.disabled_until = now + RateLimitCooldown]
            /\ \A j \in Keys \ {k} : api_keys'[j] = api_keys[j]]_vars

(* C24: a run of select_key.py exits 0 exactly when it selected a key, 2   *)
(* exactly when nothing was at fault and no row could be selected (every   *)
(* row in cooldown, exhausted or claimed), 3 under every schema fault and  *)
(* 4 under every storage fault                                             *)
C24_ExitCodes ==
  [][\A p \in Procs :
       (op'[p] = "cli" /\ Finishes(p)) =>
         LET f == arg'[p].fault
         IN /\ code'[p] = ExitOk <=> res'[p] # Empty
            /\ code'[p] = ExitNoKey <=> (f = "none" /\ res'[p] = Empty)
            /\ code'[p] = ExitNoKey =>
                 \A k \in Keys : \/ lockedBy[k] # Unlocked
                                 \/ api_keys[k].quota_exhausted
                                 \/ ~(api_keys[k].disabled_until = NULL
                                        \/ api_keys[k].disabled_until < now)
            /\ f \in SchemaFaults => code'[p] = ExitSchema
            /\ f \in StorageFaults => code'[p] = ExitDbError]_vars

(* an Acquire of p ends in this step having found no key *)
C25_Exhausted(p) ==
  /\ arg'[p].fault = "none"
  /\ \/ calls'[p] = calls[p] + 1 /\ op'[p] = "cli" /\ pc'[p] = "idle"
     \/ /\ pc[p] = "gak_scan" /\ pc'[p] = "idle"
        /\ \A k \in Keys : ~GakWhere(api_keys[k], Now(p))

(* an Acquire of p ends in this step on a storage failure *)
C25_StorageFailed(p) ==
  /\ op'[p] \in {"cli", "gak", "proxy"} /\ Finishes(p)
  /\ arg'[p].fault \in StorageFaults

(* C25: in the selector, the agent and the proxy an Acquire that finds no  *)
(* key ends with an empty result, without an exception and with no status  *)
(* other than the selector's 2, and an Acquire that meets a storage        *)
(* failure never ends that way                                             *)
C25_ExhaustionDistinct ==
  [][\A p \in Procs :
       /\ C25_Exhausted(p) =>
            /\ res'[p] = Empty /\ ~raised'[p]
            /\ code'[p] \in {NULL, ExitNoKey}
       /\ C25_StorageFailed(p) =>
            (raised'[p] \/ code'[p] \notin {NULL, ExitNoKey})]_vars

(* an Acquire made now can be given key k: the row passes the WHERE clause *)
(* of the selector and of the scan and no transaction holds it             *)
C26_Acquirable(k) ==
  /\ lockedBy[k] = Unlocked
  /\ CliWhere(api_keys[k], FALSE, now)
  /\ GakWhere(api_keys[k], now)

C26_CoolingDown(k) ==
  api_keys[k].disabled_until # NULL /\ api_keys[k].disabled_until >= now

(* C26: with no key ever released, from every reachable state (a key       *)
(* popped from the cache, a row claim held by a running or killed          *)
(* selector, a soft reservation) every key is again and again either       *)
(* still in its cooldown or acquirable                                     *)
C26_NoLeak ==
  \A k \in 1..NumKeys : []<>(C26_CoolingDown(k) \/ C26_Acquirable(k))

(* a key that was reserved, and another whose selector was killed while it *)
(* held the claim, are acquirable again                                    *)
C26_Witness ==
  \E k, j \in Keys, p, q \in Procs :
    /\ k # j /\ p # q
    /\ api_keys[k].disabled_until # NULL /\ api_keys[k].disabled_until < now
    /\ res[p] = k /\ op[p] = "cli" /\ pc[p] = "idle"
    /\ raised[q] /\ op[q] = "cli" /\ pc[q] = "idle"
    /\ C26_Acquirable(k) /\ C26_Acquirable(j)

(* C27: whatever becomes of a notification (delivered, webhook not         *)
(* configured, a status other than 200, an exception while sending), the   *)
(* quota check goes on to the commit with the transaction as it was, the   *)
(* commit publishes the recorded row and one usage_log row, and the agent  *)
(* that found no key goes on with its loop                                 *)
C27_DeliveryFailureSwallowed ==
  [][\A p \in Procs :
       LET k == arg[p].key
       IN /\ (pc[p] = "rec_check" /\ pc'[p] # "rec_check") =>
               /\ pc'[p] = "rec_commit" /\ ~raised'[p]
               /\ lockedBy'[k] = p /\ arg'[p] = arg[p]
               /\ UNCHANGED <<api_keys, usage_log, pend, txn>>
          /\ (pc[p] = "rec_commit" /\ pc'[p] # "rec_commit") =>
               /\ pc'[p] = "idle" /\ ~raised'[p]
               /\ api_keys'[k] = pend[p]
               /\ usage_log'[k] = usage_log[k] + 1
          /\ (pc[p] = "gak_scan" /\ pc'[p] = "idle" /\ op[p] = "gak") =>
               ~raised'[p]]_vars

(* with requests.post raising, a Record that had the error notification    *)
(* sent has committed the count of 60                                      *)
C27_Witness ==
  /\ webhook = "exception"
  /\ \E k \in Keys :
       /\ notified[k].error > 0
       /\ usage_log[k] > 0
       /\ api_keys[k].daily_request_count = QuotaLimit
  /\ \A p \in Procs : ~raised[p]

(* the call suspends exactly when the key was used less than the interval  *)
(* ago, and then until the interval is over: for the interval less the     *)
(* time elapsed, which is never more than the interval                     *)
C28_SleepsRemainder ==
  \A p \in Procs, k \in Keys :
    ThrottleRead(p, k) =>
      LET last_used == api_keys[k].last_used
          elapsed == now - last_used
      IN /\ pc'[p] = "thr_sleep" <=>
              (last_used # NULL /\ elapsed < MIN_REQUEST_INTERVAL_SECONDS)
         /\ pc'[p] # "thr_sleep" => pc'[p] = "idle"
         /\ pc'[p] = "thr_sleep" =>
              /\ arg'[p].t - now = MIN_REQUEST_INTERVAL_SECONDS - elapsed
              /\ arg'[p].t - now <= MIN_REQUEST_INTERVAL_SECONDS
              /\ arg'[p].t - now > 0
              /\ arg'[p].rd = last_used

(* the sleep ends no earlier than the interval after the last_used read *)
C28_WakesAfterInterval ==
  \A p \in Procs :
    (pc[p] = "thr_sleep" /\ pc'[p] = "idle")
      => now - arg[p].rd >= MIN_REQUEST_INTERVAL_SECONDS

(* and it can end as soon as that time has come *)
C28_WakesInTime ==
  \A p \in Procs :
    (pc[p] = "thr_sleep" /\ now - arg[p].rd >= MIN_REQUEST_INTERVAL_SECONDS)
      => ENABLED ThrottleWake(p)

(* C28: throttle_if_needed suspends its caller only when less than the     *)
(* interval of 30 seconds has passed since the key's last_used, for the    *)
(* remaining time exactly; a key never used causes no wait, no wait is     *)
(* longer than the interval, and the call returns no earlier than the      *)
(* interval after the last_used it read                                    *)
C28_ThrottleWaits ==
  /\ [][C28_SleepsRemainder]_vars
  /\ [][C28_WakesAfterInterval]_vars
  /\ []C28_WakesInTime

(* a caller has slept out the 29 seconds that were left of the interval;   *)
(* the other is in a sleep of the whole interval on a key just released    *)
C28_Witness ==
  \E p, q \in Procs :
    /\ op[p] = "throttle" /\ pc[p] = "idle" /\ calls[p] > 0
    /\ now = MIN_REQUEST_INTERVAL_SECONDS
    /\ pc[q] = "thr_sleep"
    /\ arg[q].rd = now
    /\ arg[q].t = now + MIN_REQUEST_INTERVAL_SECONDS

(* C29: the row claim of a run of select_key.py lasts no longer than the   *)
(* run: however the run ends (key with flags, committed; key without       *)
(* flags; no key; exit 3; exit 4) it holds no row lock afterwards, and a   *)
(* locked row is the row of a run that is between its SELECT and its end   *)
C29_ClaimMomentary ==
  /\ \A p \in Procs : pc[p] = "idle" => \A k \in Keys : lockedBy[k] # p
  /\ \A k \in Keys :
       lockedBy[k] # Unlocked =>
         /\ pc[lockedBy[k]] \in {"cli_update", "cli_close"}
         /\ arg[lockedBy[k]].key = k

(* one run has printed a key without flags, leaving the row as it was,     *)
(* another has reserved and committed the other key, and no row is locked  *)
C29_Witness ==
  \E p, q \in Procs, k, j \in Keys :
    /\ p # q /\ k # j
    /\ pc[p] = "idle" /\ code[p] = ExitOk /\ res[p] = k
    /\ api_keys[k] = FreshRow
    /\ pc[q] = "idle" /\ code[q] = ExitOk /\ res[q] = j
    /\ api_keys[j].disabled_until # NULL
    /\ api_keys[j].daily_request_count = 1
    /\ \A i \in Keys : lockedBy[i] = Unlocked

RECURSIVE Pow2(_)
Pow2(n) == IF n = 0 THEN 1 ELSE 2 * Pow2(n - 1)

(* the k-th failure in a row is followed by a sleep of 5 * 2^(k-1) seconds *)
(* for k up to 5; the 6th ends the agent                                   *)
C30_FailureStep ==
  \A p \in Procs :
    GenFail(p) =>
      LET k == retry[p].count + 1
      IN /\ retry'[p].count = k
         /\ k <= max_retries =>
              /\ pc'[p] = "retry_sleep"
              /\ arg'[p].t - now = InitialRetryDelay * Pow2(k - 1)
              /\ retry'[p].slept = InitialRetryDelay * Pow2(k - 1)
         /\ k > max_retries => pc'[p] = "stopped" /\ k = max_retries + 1

(* a successful generation, whose usage is recorded, sets the count to 0   *)
(* and the delay to 5 seconds                                              *)
C30_SuccessStep ==
  \A p \in Procs :
    (calls'[p] = calls[p] + 1 /\ op'[p] = "record") =>
      retry'[p].count = 0 /\ retry'[p].delay = InitialRetryDelay

(* nothing but a failed or a successful generation changes the count or    *)
(* the delay: not an empty pool, which leads to a sleep of 5 minutes, and  *)
(* not a rate limit, which disables the key for 5 minutes                  *)
C30_OtherSteps ==
  \A p \in Procs :
    /\ retry'[p] # retry[p] =>
         \/ GenFail(p)
         \/ calls'[p] = calls[p] + 1 /\ op'[p] = "record"
    /\ AgentExhausted(p) => arg'[p].t - now = KeyExhaustedSleep
    /\ DisUpdate(p, 1, FALSE) =>
         api_keys'[1].disabled_until - Now(p) = RateLimitCooldown

(* a sleep of the loop ends no earlier than its time *)
C30_SleptOut ==
  \A p \in Procs :
    (pc[p] = "retry_sleep" /\ pc'[p] = "idle") => now >= arg[p].t

(* C30: in the agent's loop the k-th failed generation in a row (k = 1..5) *)
(* is followed by a sleep of 5 * 2^(k-1) seconds and the 6th stops the     *)
(* agent; a successful generation resets the count to 0 and the delay to 5 *)
(* seconds; an empty pool and a rate limit have their own handling of 5    *)
(* minutes and count as no retry                                           *)
C30_Backoff ==
  /\ [][C30_FailureStep]_vars
  /\ [][C30_SuccessStep]_vars
  /\ [][C30_OtherSteps]_vars
  /\ [][C30_SleptOut]_vars
  /\ [](\A p \in Procs :
          /\ retry[p].count <= max_retries + 1
          /\ retry[p].delay =
               InitialRetryDelay *
                 Pow2(IF retry[p].count > max_retries THEN max_retries
                      ELSE retry[p].count))

(* the agent has had failures, a success and a rate limit, and then has    *)
(* stopped at its 6th failure in a row, after sleeps of 5, 10, 20, 40 and  *)
(* 80 seconds                                                              *)
C30_Witness ==
  /\ pc[1] = "stopped"
  /\ retry[1].count = max_retries + 1
  /\ retry[1].slept = 80
  /\ now >= 5 + 155
  /\ usage_log[1] > 0
  /\ api_keys[1].disabled_until # NULL
  /\ calls[1] = MaxOps

(* ======================= the claims, C31 to C38 ======================= *)

(* C31: an agent that has disabled the key it had acquired, committed and  *)
(* cleared the cache does not get that key from its next                   *)
(* get_available_key call while the 5 minutes last                         *)
C31_DisabledKeyNotReacquired ==
  [][\A p \in Procs :
       (/\ op[p] = "disable" /\ pc[p] = "idle"
        /\ now < api_keys[res[p]].disabled_until
        /\ op'[p] = "gak" /\ Finishes(p))
         => res'[p] # res[p]]_vars

(* the keys of a list *)
Entries(list) == {list[i] : i \in 1..Len(list)}

(* the list a scan hands to the refill holds keys that are available in    *)
(* api_keys at the time of the scan                                        *)
C32_ScannedAvailable ==
  \A p \in Procs :
    (pc[p] = "gak_scan" /\ pc'[p] = "gak_delete") =>
      /\ keys'[p] # <<>>
      /\ \A k \in Entries(keys'[p]) :
           /\ Usable(api_keys[k], now)
           /\ api_keys[k].daily_request_count < QuotaLimit

(* the list is kept as scanned until it is pushed, and the cache gets      *)
(* entries from such a push only: every other step leaves it, shortens it  *)
(* at its head or empties it                                               *)
C32_OnlyRefillAdds ==
  /\ \A p \in Procs : pc[p] \in {"gak_delete", "gak_push"} /\ pc'[p] # "idle"
                          => keys'[p] = keys[p]
  /\ \/ cache' = cache
     \/ cache # <<>> /\ cache' = Tail(cache)
     \/ cache' = <<>>
     \/ \E p \in Procs : /\ pc[p] = "gak_push" /\ pc'[p] = "gak_lpop2"
                          /\ cache' = cache \o keys[p]

(* C32: every entry of the cache was an available key of api_keys (not     *)
(* exhausted, not in cooldown) at the time of the scan that put it there,  *)
(* and entries enter the cache through such a refill only                  *)
C32_CacheFromScan ==
  [][C32_ScannedAvailable]_vars /\ [][C32_OnlyRefillAdds]_vars

(* a refill has pushed its scan, which left out a key in cooldown *)
C32_Witness ==
  \E p \in Procs, k \in Keys :
    /\ pc[p] = "gak_lpop2"
    /\ cache = keys[p] /\ cache # <<>>
    /\ api_keys[k].disabled_until # NULL
    /\ k \notin Entries(cache)

(* C33: whichever operation has raised a key's daily_request_count        *)
(* (Record, select_key --mark-use, track_usage), a count at or above the   *)
(* daily limit of 60 then comes with quota_exhausted = true                *)
C33_LimitSetsFlag ==
  [][\A k \in Keys :
       (/\ api_keys'[k].daily_request_count > api_keys[k].daily_request_count
        /\ api_keys'[k].daily_request_count >= QuotaLimit)
         => api_keys'[k].quota_exhausted]_vars

(* C34: the cache never holds two entries for one key, however pops and    *)
(* refills of concurrent processes interleave                              *)
C34_NoDuplicateEntries ==
  \A i, j \in 1..Len(cache) : i # j => cache[i] # cache[j]

(* C35: against the same rows and with an empty cache, select_key.py       *)
(* without flags and get_available_key agree: the rows one may return are  *)
(* the rows the other may return from, and one finds no key exactly when   *)
(* the other finds none                                                    *)
C35_SelectorsAgree ==
  \A p \in Procs :
    /\ {k \in Keys : CliWhere(api_keys[k], FALSE, now)}
         = {k \in Keys : GakWhere(api_keys[k], now)}
    /\ (SelectSkipLocked(p, FALSE, now) = {}) <=> (ScanResults(now) = {Empty})

(* C36: the identifier get_available_key returned designates the acquired  *)
(* row, and that row only, in each later operation of the caller: the      *)
(* throttle lookup, the usage update, the rate-limit disable and the       *)
(* release                                                                 *)
C36_SameRowLater ==
  [][\A p \in Procs :
       /\ (AgentThrottle(p) \/ AgentDisable(p, FALSE)
             \/ \E tok \in TokenCounts : AgentRecord(p, tok))
            => ByKeyName(res[p]) = {res[p]}
       /\ ProxyRelease(p) => ById(res[p]) = {res[p]}
       /\ (calls'[p] = calls[p] + 1 /\ op'[p] = "record")
            => arg'[p].key = res[p]
       /\ (calls'[p] = calls[p] + 1 /\ op'[p] \in {"disable", "release"})
            => \A j \in Keys \ {res[p]} : api_keys'[j] = api_keys[j]]_vars

(* C37: a proxy request that has acquired a key ends, on each of its exit  *)
(* paths, with one release of that key, and releases nothing after that    *)
C37_ReleasedOnce ==
  [][\A p \in Procs :
       /\ (/\ op[p] = "proxy" /\ pc[p] = "idle" /\ res[p] # Empty
           /\ op'[p] # "proxy")
            => /\ op'[p] = "release"
               /\ api_keys'[res[p]].last_used = now
       /\ (op'[p] = "release" /\ calls'[p] = calls[p] + 1)
            => op[p] = "proxy"]_vars

(* C38: a step that sets a cooldown on a key that has one (the agent's     *)
(* rate-limit disable, the reserve of select_key.py) leaves disabled_until *)
(* no earlier than it was                                                  *)
C38_CooldownNeverEarlier ==
  [][\A k \in Keys :
       api_keys[k].disabled_until # NULL
         => /\ api_keys'[k].disabled_until # NULL
            /\ api_keys'[k].disabled_until >= api_keys[k].disabled_until]_vars

====
